---------------------------- MODULE Spec2Model ----------------------------
(***************************************************************************)
(* A model of the TCO calculators of tco-eco4impact: the CAPEX, OPEX       *)
(* (truck and ship) and residual-value calculators, each a CoSApp System   *)
(* whose inputs are set by the caller and whose compute() overwrites its   *)
(* outwards.                                                               *)
(*                                                                         *)
(* Numbers.  The Python code computes in floats.  The model computes in    *)
(* exact rationals <<n, d>> (d > 0, lowest terms), so that an identity     *)
(* between outputs is an identity of the formulas and not of a rounding.   *)
(* A Python exception is a value of the field "err" of the calculator:     *)
(* the assignments made before the raise are kept, the later ones are not  *)
(* made.  math.exp / np.exp is replaced by the rational function Exp       *)
(* below, which has exp's value at 0, its positivity and its monotonicity. *)
(***************************************************************************)
EXTENDS Integers, Sequences, FiniteSets, TLC

(***************************************************************************)
(* Exact rational arithmetic                                               *)
(***************************************************************************)
Abs(i) == IF i < 0 THEN -i ELSE i

RECURSIVE GCD(_, _)
GCD(a, b) == IF b = 0 THEN a ELSE GCD(b, a % b)

\* the rational n/d in lowest terms with a positive denominator (d # 0)
R(n, d) ==
    LET g == GCD(Abs(n), Abs(d))
        s == IF d < 0 THEN -1 ELSE 1
    IN  <<(s * n) \div g, (s * d) \div g>>

Q(i) == <<i, 1>>
Zero == Q(0)
One == Q(1)

QAdd(a, b) == R(a[1] * b[2] + b[1] * a[2], a[2] * b[2])
QSub(a, b) == R(a[1] * b[2] - b[1] * a[2], a[2] * b[2])
QMul(a, b) == R(a[1] * b[1], a[2] * b[2])
\* a / b for b # 0; the callers raise ZeroDivisionError before dividing by 0
QDiv(a, b) == R(a[1] * b[2], a[2] * b[1])
QLt(a, b) == a[1] * b[2] < b[1] * a[2]
QLe(a, b) == a[1] * b[2] <= b[1] * a[2]
QPos(a) == a[1] > 0
QIsZero(a) == a[1] = 0
QMax(a, b) == IF QLt(a, b) THEN b ELSE a
QMin(a, b) == IF QLt(a, b) THEN a ELSE b

RECURSIVE QPow(_, _)
QPow(a, k) == IF k = 0 THEN One ELSE QMul(a, QPow(a, k - 1))

\* int(np.ceil(a)) for a >= 0
QCeil(a) == (a[1] + a[2] - 1) \div a[2]

\* stand-in for exp(x): 1 + x for x >= 0 and 1 / (1 - x) for x < 0
Exp(x) == IF x[1] >= 0 THEN QAdd(One, x) ELSE QDiv(One, QSub(One, x))

\* dict.get(k, default) on a function used as a dict
Get(d, k, default) == IF k \in DOMAIN d THEN d[k] ELSE default

NoDict == [x \in {} |-> Zero]

NoErr == "none"

\* an exception has ended the call: the steps that follow are not run
Raised(o) == o.err # NoErr

\* the call begins: no exception yet, one more call made
Begin(o) == [o EXCEPT !.err = NoErr, !.calls = o.calls + 1]



(***************************************************************************)
(* Values of the ports.  None is the empty tuple, a number n is <<n>>.     *)
(***************************************************************************)
None == <<>>
Some(x) == <<x>>
IsNone(x) == x = <<>>
\* Python's `x or 0` for x None or an int
OrZero(x) == IF IsNone(x) THEN 0 ELSE x[1]
\* Python's `x if x else 1` for x None or an int
OrOne(x) == IF IsNone(x) \/ x[1] = 0 THEN 1 ELSE x[1]

(***************************************************************************)
(* The reference database of VehicleCAPEXCalculator (self._countries).     *)
(* France is complete; Germany has no infrastructure, financing, subsidies *)
(* or licensing entry; every other country is absent.                      *)
(***************************************************************************)
CapexCountries ==
    [France |->
        [infrastructure |->
            [chargers |->
                [slow  |-> [power_kw |-> Q(2), charging_efficiency |-> R(1, 2),
                            operating_hours_per_day |-> Q(5),
                            operating_days_per_year |-> Q(2),
                            price_eur |-> Q(100),
                            installation_cost_eur |-> Q(40)],
                 fast  |-> [power_kw |-> Q(4), charging_efficiency |-> R(1, 2),
                            operating_hours_per_day |-> Q(5),
                            operating_days_per_year |-> Q(2),
                            price_eur |-> Q(300),
                            installation_cost_eur |-> Q(60)],
                 ultra |-> [power_kw |-> Q(8), charging_efficiency |-> R(1, 2),
                            operating_hours_per_day |-> Q(5),
                            operating_days_per_year |-> Q(2),
                            price_eur |-> Q(900),
                            installation_cost_eur |-> Q(80)]],
             stations |->
                [diesel |-> [hardware_cost_per_station_eur |-> Q(500),
                             installation_cost_per_pump_eur |-> Q(70)],
                 H2_ICE |-> [hardware_cost_per_station_eur |-> Q(2000),
                             electrolyzer_grid_connection_cost_eur |-> Q(600),
                             installation_cost_per_station_eur |-> Q(90)]],
             grid_connection |->
                [tiers |-> << [max_power_kw |-> Q(2), cost_eur |-> Q(1000)],
                              [max_power_kw |-> Q(12), cost_eur |-> Q(3000)] >>],
             software |->
                [BEV  |-> [base_cost_eur |-> Q(200),
                           load_management_addon_eur |-> Q(50)],
                 FCET |-> [H2_ICE_monitoring_cost_eur |-> Q(120)]],
             site_preparation |->
                [cost_eur |-> [BEV |-> Q(300), DIESEL |-> Q(100), FCET |-> Q(400)]],
             safety |->
                [cost_per_station_eur |-> [FCET |-> Q(250), DIESEL |-> Q(30)]]],
         licensing |-> [BEV |-> Q(20), DIESEL |-> Q(10), FCET |-> Q(60)],
         taxes_registration |->
            [light |-> [BEV |-> Q(0), DIESEL |-> Q(400), FCET |-> Q(150)]],
         subsidies |->
            [y2025 |->
                [light |->
                    [vehicle_subsidies |-> [BEV |-> Q(5000), FCET |-> Q(3000)],
                     infrastructure_subsidy_rates |->
                        [BEV |-> R(1, 5), FCET |-> R(1, 10)]]]],
         financing |->
            [base_interest_rate |-> R(1, 20),
             esg_adjustments |-> [BEV |-> R(-1, 20), DIESEL |-> R(1, 20)],
             origination_fee_rate |-> R(1, 100)]],
     Germany |->
        [taxes_registration |-> [light |-> [DIESEL |-> Q(600)]]]]

\* str(vp.year) as a key of the subsidies table
YearKey(y) == IF y = 2025 THEN "y2025" ELSE "other"

(***************************************************************************)
(* The fleets a caller may pass as vehicle_dict: id -> energy profile.     *)
(***************************************************************************)
Fleets ==
    [empty |-> [i \in {} |-> NoDict],
     two   |-> [i \in {"1", "2"} |->
                  IF i = "1"
                  THEN [E_t |-> Q(30), Private_S_t |-> R(1, 2), Private_F_t |-> R(1, 3),
                        Private_U_t |-> Zero, Private_t |-> R(1, 2)]
                  ELSE [E_t |-> Q(10), Private_S_t |-> R(1, 2), Private_F_t |-> Zero,
                        Private_U_t |-> Zero, Private_t |-> One]]]

RECURSIVE SumOver(_, _, _)
\* sum over the entries of dict d of E_t * share, share read with .get(k, 0.0)
SumOver(d, ids, k) ==
    IF ids = {} THEN Zero
    ELSE LET i == CHOOSE x \in ids : TRUE
         IN  QAdd(QMul(Get(d[i], "E_t", Zero), Get(d[i], k, Zero)),
                  SumOver(d, ids \ {i}, k))


(***************************************************************************)
(* VehicleCAPEXCalculator (functions/capex_calculator.py).                 *)
(* v is the in_vehicle_properties port, o the record of outwards.          *)
(***************************************************************************)
CapexOutInit ==
    [c_infrastructure_hardware |-> Zero, c_infrastructure_grid |-> Zero,
     c_infrastructure_installation |-> Zero,
     c_vehicle_cost |-> Zero, c_infrastructure_cost |-> Zero, c_taxes |-> Zero,
     c_financing_cost |-> Zero, c_subsidies |-> Zero, c_capex_total |-> Zero,
     c_crf |-> One,
     n_slow_calculated |-> 0, n_fast_calculated |-> 0, n_ultra_calculated |-> 0,
     E_total_slow |-> Zero, E_total_fast |-> Zero, E_total_ultra |-> Zero,
     E_total_private |-> Zero,
     err |-> NoErr, calls |-> 0]

capex_get_country_data(v) == Get(CapexCountries, v.registration_country, NoDict)

capex_infrastructure(v) == Get(capex_get_country_data(v), "infrastructure", NoDict)

get_charger_params(v, charger_type) ==
    Get(Get(capex_infrastructure(v), "chargers", NoDict), charger_type, NoDict)

get_station_params(v, station_type) ==
    Get(Get(capex_infrastructure(v), "stations", NoDict), station_type, NoDict)

RECURSIVE FirstTier(_, _, _)
\* the for loop of get_grid_cost from tier i on: the first tier that fits
FirstTier(tiers, i, total_power_kw) ==
    IF i > Len(tiers) THEN 0
    ELSE IF QLe(total_power_kw, Get(tiers[i], "max_power_kw", Zero)) THEN i
    ELSE FirstTier(tiers, i + 1, total_power_kw)

get_grid_cost_first(v, total_power_kw) ==
    LET tiers == Get(Get(capex_infrastructure(v), "grid_connection", NoDict),
                     "tiers", <<>>)
        i == FirstTier(tiers, 1, total_power_kw)
    IN  IF i > 0 THEN Get(tiers[i], "cost_eur", Zero)
        ELSE IF Len(tiers) > 0 THEN Get(tiers[1], "cost_eur", Zero)
        ELSE Zero

get_grid_cost(v, total_power_kw) ==
    LET tiers == Get(Get(capex_infrastructure(v), "grid_connection", NoDict),
                     "tiers", <<>>)
        i == FirstTier(tiers, 1, total_power_kw)
    IN  IF i > 0 THEN Get(tiers[i], "cost_eur", Zero)
        ELSE IF Len(tiers) > 0 THEN Get(tiers[Len(tiers)], "cost_eur", Zero)
        ELSE Zero

get_software_cost(v) ==
    LET software == Get(capex_infrastructure(v), "software", NoDict)
    IN  IF v.type_energy \in {"BEV", "PHEV"}
        THEN LET bet_data == Get(software, "BEV", NoDict)
                 base == Get(bet_data, "base_cost_eur", Zero)
             IN  IF v.smart_charging_enabled
                 THEN QAdd(base, Get(bet_data, "load_management_addon_eur", Zero))
                 ELSE base
        ELSE IF v.type_energy \in {"FCET", "H2_ICE"}
        THEN Get(Get(software, "FCET", NoDict), "H2_ICE_monitoring_cost_eur", Zero)
        ELSE IF v.type_energy \in {"GNV", "LNG"}
        THEN Get(Get(software, v.type_energy, NoDict), "gas_monitoring_cost_eur", Zero)
        ELSE Zero

get_taxes_params(v) ==
    LET taxes == Get(capex_get_country_data(v), "taxes_registration", NoDict)
        weight_taxes == Get(taxes, v.vehicle_weight_class, NoDict)
    IN  Get(weight_taxes, v.type_energy, Zero)

get_subsidies_params(v) ==
    LET subsidies == Get(capex_get_country_data(v), "subsidies", NoDict)
        year_data == Get(subsidies, YearKey(v.year), NoDict)
        weight_data == Get(year_data, v.vehicle_weight_class, NoDict)
    IN  [vehicle_subsidy |->
            Get(Get(weight_data, "vehicle_subsidies", NoDict), v.type_energy, Zero),
         infrastructure_subsidy_rate |->
            Get(Get(weight_data, "infrastructure_subsidy_rates", NoDict),
                v.type_energy, Zero)]

get_financing_params(v) == Get(capex_get_country_data(v), "financing", NoDict)

compute_fleet_energy(o, v) ==
    LET d == v.vehicle_dict
        z == [o EXCEPT !.E_total_slow = Zero, !.E_total_fast = Zero,
                       !.E_total_ultra = Zero, !.E_total_private = Zero]
    IN  IF v.type_energy \in {"BEV", "PHEV"}
        THEN [z EXCEPT !.E_total_slow = SumOver(d, DOMAIN d, "Private_S_t"),
                       !.E_total_fast = SumOver(d, DOMAIN d, "Private_F_t"),
                       !.E_total_ultra = SumOver(d, DOMAIN d, "Private_U_t")]
        ELSE [z EXCEPT !.E_total_private = SumOver(d, DOMAIN d, "Private_t")]

compute_c_vehicle_cost(o, v) ==
    [o EXCEPT !.c_vehicle_cost =
        IF v.is_new THEN v.purchase_cost
        ELSE IF v.owns_vehicle THEN QAdd(v.conversion_cost, v.certification_cost)
        ELSE QAdd(v.purchase_cost, QAdd(v.conversion_cost, v.certification_cost))]


\* H_demand of one tier (lines 263-271): <<ok, hours>>, not ok on a division by 0
H_demand(E_total, params) ==
    LET denom == QMul(Get(params, "power_kw", One),
                      Get(params, "charging_efficiency", R(19, 20)))
    IN  IF ~QPos(E_total) THEN <<TRUE, Zero>>
        ELSE IF QIsZero(denom) THEN <<FALSE, Zero>>
        ELSE <<TRUE, QDiv(E_total, denom)>>

H_cap(params) ==
    QMul(Get(params, "operating_hours_per_day", Q(20)),
         Get(params, "operating_days_per_year", Q(365)))

\* int(np.ceil(H_demand / H_cap)) if H_demand > 0 else 0 (lines 277-279)
ChargerCount(demand, cap) ==
    IF ~QPos(demand) THEN <<TRUE, 0>>
    ELSE IF QIsZero(cap) THEN <<FALSE, 0>>
    ELSE <<TRUE, QCeil(QDiv(demand, cap))>>

\* the share of the unit in a tier (lines 291-293)
Share(E, part, E_total) ==
    IF QPos(E_total) THEN QDiv(QMul(E, part), E_total) ELSE Zero

\* n_slow * slow[k] * share_slow + n_fast * fast[k] * share_fast + ... 
TierSum(o, sp, fp, up, k, ss, sf, su) ==
    QAdd(QAdd(QMul(QMul(Q(o.n_slow_calculated), Get(sp, k, Zero)), ss),
              QMul(QMul(Q(o.n_fast_calculated), Get(fp, k, Zero)), sf)),
         QMul(QMul(Q(o.n_ultra_calculated), Get(up, k, Zero)), su))

\* lines 262-283: the charger counts
charger_counts(o, v, sp, fp, up) ==
    IF IsNone(v.n_slow) /\ IsNone(v.n_fast) /\ IsNone(v.n_ultra)
    THEN LET ds == H_demand(o.E_total_slow, sp)
             df == H_demand(o.E_total_fast, fp)
             du == H_demand(o.E_total_ultra, up)
             cs == ChargerCount(ds[2], H_cap(sp))
             cf == ChargerCount(df[2], H_cap(fp))
             cu == ChargerCount(du[2], H_cap(up))
         IN  IF ~(ds[1] /\ df[1] /\ du[1]) \/ ~cs[1]
             THEN [o EXCEPT !.err = "ZeroDivisionError"]
             ELSE IF ~cf[1]
             THEN [o EXCEPT !.n_slow_calculated = cs[2], !.err = "ZeroDivisionError"]
             ELSE IF ~cu[1]
             THEN [o EXCEPT !.n_slow_calculated = cs[2], !.n_fast_calculated = cf[2],
                            !.err = "ZeroDivisionError"]
             ELSE [o EXCEPT !.n_slow_calculated = cs[2], !.n_fast_calculated = cf[2],
                            !.n_ultra_calculated = cu[2]]
    ELSE [o EXCEPT !.n_slow_calculated = OrZero(v.n_slow),
                   !.n_fast_calculated = OrZero(v.n_fast),
                   !.n_ultra_calculated = OrZero(v.n_ultra)]

\* lines 285-322: the shares of the unit and its hardware, grid and
\* installation costs, c being the outwards once the chargers are counted
charging_costs(c, v, sp, fp, up) ==
    LET vdata == Get(v.vehicle_dict, ToString(v.vehicle_id), NoDict)
        E == Get(vdata, "E_t", Zero)
        ss == Share(E, Get(vdata, "Private_S_t", Zero), c.E_total_slow)
        sf == Share(E, Get(vdata, "Private_F_t", Zero), c.E_total_fast)
        su == Share(E, Get(vdata, "Private_U_t", Zero), c.E_total_ultra)
        total_power == TierSum(c, sp, fp, up, "power_kw", One, One, One)
        vehicle_power == TierSum(c, sp, fp, up, "power_kw", ss, sf, su)
        contribution == IF QPos(total_power) THEN QDiv(vehicle_power, total_power)
                        ELSE Zero
    IN  IF c.err # NoErr THEN c
        ELSE [c EXCEPT
                !.c_infrastructure_hardware =
                    TierSum(c, sp, fp, up, "price_eur", ss, sf, su),
                !.c_infrastructure_grid =
                    QMul(get_grid_cost(v, total_power), contribution),
                !.c_infrastructure_installation =
                    TierSum(c, sp, fp, up, "installation_cost_eur", ss, sf, su)]

compute_charging_infrastructure(o, v) ==
    charging_costs(charger_counts(o, v, get_charger_params(v, "slow"),
                                  get_charger_params(v, "fast"),
                                  get_charger_params(v, "ultra")),
                   v, get_charger_params(v, "slow"), get_charger_params(v, "fast"),
                   get_charger_params(v, "ultra"))

station_type_map(type_energy) ==
    CASE type_energy \in {"DIESEL", "BIO_DIESEL", "E_DIESEL", "HEV"} -> "diesel"
      [] type_energy = "HVO" -> "hvo"
      [] type_energy \in {"FCET", "H2_ICE"} -> "H2_ICE"
      [] type_energy = "GNV" -> "GNV"
      [] type_energy = "LNG" -> "LNG"
      [] OTHER -> "diesel"

compute_fueling_infrastructure(o, v) ==
    LET station_type == station_type_map(v.type_energy)
        station_params == get_station_params(v, station_type)
        n_stations_calc == Q(OrOne(v.n_stations))
        vdata == Get(v.vehicle_dict, ToString(v.vehicle_id), NoDict)
        share_private == Share(Get(vdata, "E_t", Zero), Get(vdata, "Private_t", Zero),
                               o.E_total_private)
        hw == [o EXCEPT
                !.c_infrastructure_hardware =
                    QMul(QMul(Get(station_params, "hardware_cost_per_station_eur", Zero),
                              share_private), n_stations_calc),
                !.c_infrastructure_grid =
                    IF station_type = "H2_ICE"
                    THEN QMul(QMul(n_stations_calc,
                              Get(station_params,
                                  "electrolyzer_grid_connection_cost_eur", Zero)),
                              share_private)
                    ELSE IF station_type \in {"GNV", "LNG"}
                    THEN QMul(QMul(n_stations_calc,
                              Get(station_params,
                                  "electricity_connection_cost_eur", Zero)),
                              share_private)
                    ELSE Zero]
        inst == QMul(n_stations_calc,
                     Get(station_params, "installation_cost_per_station_eur",
                         Get(station_params, "installation_cost_per_pump_eur", Zero)))
    IN  IF v.vehicle_number = 0 THEN [hw EXCEPT !.err = "ZeroDivisionError"]
        ELSE [hw EXCEPT !.c_infrastructure_installation =
                            QDiv(inst, Q(v.vehicle_number))]

\* lines 224-252: the costs shared by the fleet and the sum, i being the
\* outwards after the charging or fueling infrastructure
shared_infrastructure_costs(i, v) ==
    LET country_data == capex_get_country_data(v)
        infra == Get(country_data, "infrastructure", NoDict)
        N == Q(v.vehicle_number)
        software_cost == QDiv(get_software_cost(v), N)
        site_cost ==
            QDiv(Get(Get(Get(infra, "site_preparation", NoDict), "cost_eur", NoDict),
                     v.type_energy, Zero), N)
        safety_cost ==
            QDiv(QMul(Get(Get(Get(infra, "safety", NoDict), "cost_per_station_eur",
                              NoDict), v.type_energy, Zero),
                      Q(OrOne(v.n_stations))), N)
        licensing_cost ==
            QDiv(Get(Get(country_data, "licensing", NoDict), v.type_energy, Zero), N)
    IN  IF i.err # NoErr THEN i
        ELSE IF v.vehicle_number = 0 THEN [i EXCEPT !.err = "ZeroDivisionError"]
        ELSE [i EXCEPT !.c_infrastructure_cost =
                QAdd(i.c_infrastructure_hardware,
                QAdd(software_cost,
                QAdd(i.c_infrastructure_grid,
                QAdd(i.c_infrastructure_installation,
                QAdd(site_cost, QAdd(safety_cost, licensing_cost))))))]

compute_c_infrastructure_cost(o, v) ==
    shared_infrastructure_costs(IF v.type_energy \in {"BEV", "PHEV"}
                                THEN compute_charging_infrastructure(o, v)
                                ELSE compute_fueling_infrastructure(o, v), v)

compute_c_taxes(o, v) ==
    IF Raised(o) THEN o ELSE
    [o EXCEPT !.c_taxes = get_taxes_params(v)]

compute_c_subsidies(o, v) ==
    IF Raised(o) THEN o ELSE
    LET p == get_subsidies_params(v)
        infrastructure_subsidy ==
            QMul(o.c_infrastructure_cost, p.infrastructure_subsidy_rate)
    IN  IF v.vehicle_number = 0 THEN [o EXCEPT !.err = "ZeroDivisionError"]
        ELSE [o EXCEPT !.c_subsidies =
                QAdd(p.vehicle_subsidy,
                     QDiv(infrastructure_subsidy, Q(v.vehicle_number)))]

\* the capital recovery factor with the limit 1/n of the formula at r = 0
CRF_limit(r, n) ==
    IF QPos(r)
    THEN LET g == QPow(QAdd(One, r), n)
         IN  IF QIsZero(QSub(g, One)) THEN <<FALSE, One>>
             ELSE <<TRUE, QDiv(QMul(r, g), QSub(g, One))>>
    ELSE IF n = 0 THEN <<FALSE, One>> ELSE <<TRUE, R(1, n)>>

\* the present-value factor ((1+r)^n - 1) / (r (1+r)^n) in place of its inverse
CRF_inverse(r, n) ==
    IF QPos(r)
    THEN LET g == QPow(QAdd(One, r), n)
         IN  <<TRUE, QDiv(QSub(g, One), QMul(r, g))>>
    ELSE <<TRUE, One>>

\* the capital recovery factor (lines 413-418): <<ok, crf>>
CRF(r, n) ==
    IF QPos(r)
    THEN LET g == QPow(QAdd(One, r), n)
         IN  IF QIsZero(QSub(g, One)) THEN <<FALSE, One>>
             ELSE <<TRUE, QDiv(QMul(r, g), QSub(g, One))>>
    ELSE <<TRUE, One>>

adjusted_rate(v) ==
    LET fin_params == get_financing_params(v)
    IN  QAdd(Get(fin_params, "base_interest_rate", R(1, 25)),
             Get(Get(fin_params, "esg_adjustments", NoDict), v.type_energy, Zero))

compute_c_financing_cost(o, v) ==
    IF Raised(o) THEN o ELSE
    LET fin_params == get_financing_params(v)
        origination_rate == Get(fin_params, "origination_fee_rate", R(1, 100))
        f == [o EXCEPT !.c_financing_cost = QMul(o.c_vehicle_cost, origination_rate)]
        c == CRF(adjusted_rate(v), v.loan_years)
    IN  IF c[1] THEN [f EXCEPT !.c_crf = c[2]]
        ELSE [f EXCEPT !.err = "ZeroDivisionError"]

\* the total with the subsidies added instead of deducted
capex_total_added(o) ==
    QAdd(o.c_vehicle_cost,
         QAdd(o.c_infrastructure_cost,
              QAdd(o.c_taxes, QAdd(o.c_financing_cost, o.c_subsidies))))

capex_total(o) ==
    QSub(QAdd(o.c_vehicle_cost,
         QAdd(o.c_infrastructure_cost, QAdd(o.c_taxes, o.c_financing_cost))),
         o.c_subsidies)

\* the last statement of VehicleCAPEXCalculator.compute
capex_assign_total(o, v) ==
    IF Raised(o) THEN o ELSE
    [o EXCEPT !.c_capex_total = capex_total(o)]

\* VehicleCAPEXCalculator.compute: the first exception ends the call
capex_compute(o, v) ==
    capex_assign_total(
    compute_c_financing_cost(
    compute_c_subsidies(
    compute_c_taxes(
    compute_c_infrastructure_cost(
    compute_c_vehicle_cost(
    compute_fleet_energy(Begin(o), v), v), v), v), v), v), v)

(***************************************************************************)
(* CAPEXSystem and its children (capex_calculator.py).  The database is a  *)
(* single table (DatabaseLoader.db); v is the record of the system's       *)
(* inwards, o the record of its outwards.                                  *)
(***************************************************************************)
SystemDB ==
    [chargers |-> CapexCountries.France.infrastructure.chargers,
     stations |->
        [diesel |-> [hardware_cost_per_station_eur |-> Q(500),
                     installation_cost_per_pump_eur |-> Q(70)],
         h2     |-> [hardware_cost_per_station_eur |-> Q(2000),
                     electrolyzer_grid_connection_cost_eur |-> Q(600),
                     installation_cost_per_station_eur |-> Q(90)]],
     tiers |-> CapexCountries.France.infrastructure.grid_connection.tiers,
     software |-> [bet  |-> [base_cost_eur |-> Q(200),
                             load_management_addon_eur |-> Q(50)],
                   fcet |-> [h2_monitoring_cost_eur |-> Q(120)]],
     site_preparation |-> [bet |-> [cost_eur |-> Q(300)]],
     safety |-> [fcet |-> [cost_per_station_eur |-> Q(250)],
                 bet  |-> [cost_total_eur |-> Q(30)]],
     licensing |-> [France |-> [fcet |-> Q(60)]],
     taxes |-> [France |-> [heavy |-> [bet    |-> [registration |-> Q(100)],
                                       diesel |-> [registration |-> Q(400)]]]],
     subsidies |->
        [France |-> [y2025 |-> [heavy |->
            [bet  |-> [vehicle_subsidy_thresholds |->
                          << [max_purchase_price |-> Q(500), subsidy |-> Q(100)],
                             [max_purchase_price |-> Q(850), subsidy |-> Q(50)] >>,
                       infrastructure_subsidy_rate |-> R(1, 4)],
             fcet |-> [vehicle_subsidy |-> Q(60)]]]]],
     financing |-> [base_interest_rate |-> One,
                    esg_adjustments |-> [bet |-> Q(-1)],
                    origination_fee_rate |-> R(1, 100)]]

\* the fleet dictionary handed to CAPEXSystem: id -> energy profile
SystemFleet ==
    [i \in {1, 2} |->
        [E_t |-> IF i = 1 THEN Q(30) ELSE Q(10), S_t |-> R(1, 2),
         F_t |-> IF i = 1 THEN R(1, 2) ELSE Zero, U_t |-> Zero,
         Public_t |-> Zero, private_t |-> R(1, 2)]]

SystemOutInit ==
    [total_capex |-> Zero, capex_per_vehicle |-> Zero,
     vehicle_cost_component |-> Zero, infrastructure_cost_component |-> Zero,
     taxes_component |-> Zero, financing_component |-> Zero,
     subsidies_component |-> Zero, crf |-> One, err |-> NoErr, calls |-> 0]

IsBet(pt) == pt \in {"bet", "phev"}

\* VehicleSystem.compute
VehicleSystem_compute(v) ==
    IF v.is_new THEN v.purchase_price
    ELSE IF v.owns_vehicle THEN QAdd(v.conversion_cost, v.certification_cost)
    ELSE QAdd(v.purchase_price, QAdd(v.conversion_cost, v.certification_cost))

\* FleetSystem.compute: E_total_slow, E_total_fast, E_total_ultra
FleetSystem_compute(v) ==
    [slow  |-> SumOver(v.vehicle_dict, DOMAIN v.vehicle_dict, "S_t"),
     fast  |-> SumOver(v.vehicle_dict, DOMAIN v.vehicle_dict, "F_t"),
     ultra |-> SumOver(v.vehicle_dict, DOMAIN v.vehicle_dict, "U_t")]

\* max(self.vehicle_number, 1) of InfrastructureSystem, whose vehicle_number
\* is len(vehicle_dict)
InfraFleet(v) == IF Cardinality(DOMAIN v.vehicle_dict) > 1
                 THEN Cardinality(DOMAIN v.vehicle_dict) ELSE 1

\* the number of chargers of one kind, all of n_slow, n_fast, n_ultra being None
SystemChargerCount(E, params) ==
    LET H_dem == IF QPos(E)
                 THEN QDiv(E, QMul(params.power_kw, params.charging_efficiency))
                 ELSE Zero
        H_capacity == QMul(params.operating_hours_per_day,
                           params.operating_days_per_year)
    IN  IF QPos(H_dem) THEN QCeil(QDiv(H_dem, H_capacity)) ELSE 0

\* DatabaseLoader.get_grid_cost
SystemGridCost(p) ==
    LET t == FirstTier(SystemDB.tiers, 1, p)
    IN  IF t = 0 THEN SystemDB.tiers[Len(SystemDB.tiers)].cost_eur
        ELSE SystemDB.tiers[t].cost_eur

\* DatabaseLoader.get_software_cost
SystemSoftwareCost(pt, smart) ==
    IF IsBet(pt)
    THEN IF smart THEN QAdd(SystemDB.software.bet.base_cost_eur,
                            SystemDB.software.bet.load_management_addon_eur)
         ELSE SystemDB.software.bet.base_cost_eur
    ELSE IF pt \in {"fcet", "hice"} THEN SystemDB.software.fcet.h2_monitoring_cost_eur
    ELSE Zero

\* DatabaseLoader.get_safety_cost
SystemSafetyCost(pt, n_stations) ==
    LET safety == Get(SystemDB.safety, pt, NoDict)
    IN  IF "cost_per_station_eur" \in DOMAIN safety
        THEN QMul(safety.cost_per_station_eur, Q(n_stations))
        ELSE IF "cost_total_eur" \in DOMAIN safety THEN safety.cost_total_eur
        ELSE Zero

SystemStationType(pt) == IF pt \in {"fcet", "hice"} THEN "h2" ELSE "diesel"

\* InfrastructureSystem.compute from the shares on, with _calculate_hardware,
\* _calculate_grid and _calculate_installation: the exception raised, and
\* infrastructure_cost_per_vehicle.  E is the fleet's energy per kind of
\* charger, n_slow_calculated .. n_ultra_calculated the charger counts.
InfrastructureCosts(v, E, n_slow_calculated, n_fast_calculated, n_ultra_calculated) ==
    LET pt == v.powertrain_type
        db == SystemDB.chargers
        me == v.vehicle_dict[v.id]
        share_slow == IF QPos(E.slow) THEN QDiv(QMul(me.E_t, me.S_t), E.slow) ELSE Zero
        share_fast == IF QPos(E.fast) THEN QDiv(QMul(me.E_t, me.F_t), E.fast) ELSE Zero
        share_ultra == IF QPos(E.ultra) THEN QDiv(QMul(me.E_t, me.U_t), E.ultra) ELSE Zero
        n_stations_calculated == IF IsNone(v.n_stations) THEN 1 ELSE v.n_stations[1]
        N == Q(InfraFleet(v))
        station == Get(SystemDB.stations, SystemStationType(pt), NoDict)
        hardware_cost ==
            IF IsBet(pt)
            THEN QAdd(QMul(QMul(Q(n_slow_calculated * n_fast_calculated),
                                db.fast.price_eur), share_slow),
                 QAdd(QMul(QMul(Q(n_fast_calculated), db.fast.price_eur), share_fast),
                      QMul(QMul(Q(n_ultra_calculated), db.ultra.price_eur), share_ultra)))
            ELSE QMul(Q(0 * v.n_stations[1]),
                      Get(station, "hardware_cost_per_station_eur", Zero))
        total_power == QAdd(QMul(Q(n_slow_calculated), db.slow.power_kw),
                       QAdd(QMul(Q(n_fast_calculated), db.fast.power_kw),
                            QMul(Q(n_ultra_calculated), db.ultra.power_kw)))
        vehicle_power ==
            QAdd(QMul(QMul(Q(n_slow_calculated), db.slow.power_kw), share_slow),
            QAdd(QMul(QMul(Q(n_fast_calculated), db.fast.power_kw), share_fast),
                 QMul(QMul(Q(n_ultra_calculated), db.ultra.power_kw), share_ultra)))
        grid_cost ==
            IF IsBet(pt)
            THEN QMul(SystemGridCost(total_power),
                      IF QPos(total_power) THEN QDiv(vehicle_power, total_power)
                      ELSE Zero)
            ELSE IF pt \in {"fcet", "hice"}
            THEN QDiv(QMul(Q(n_stations_calculated),
                           Get(SystemDB.stations.h2,
                               "electrolyzer_grid_connection_cost_eur", Zero)), N)
            ELSE Zero
        installation_cost ==
            IF IsBet(pt)
            THEN QAdd(QMul(QMul(Q(n_slow_calculated), db.slow.installation_cost_eur),
                           share_slow),
                 QAdd(QMul(QMul(Q(n_fast_calculated), db.fast.installation_cost_eur),
                           share_fast),
                      QMul(QMul(Q(n_ultra_calculated), db.ultra.installation_cost_eur),
                           share_ultra)))
            ELSE IF pt \in {"fcet", "hice"}
            THEN QDiv(QMul(Q(n_stations_calculated),
                           Get(SystemDB.stations.h2,
                               "installation_cost_per_station_eur", Zero)), N)
            ELSE QDiv(QMul(Q(n_stations_calculated),
                           Get(SystemDB.stations.diesel,
                               "installation_cost_per_pump_eur", Zero)), N)
        software_cost == QDiv(SystemSoftwareCost(pt, v.smart_charging_enabled), N)
        site_cost == QDiv(Get(Get(SystemDB.site_preparation, pt, NoDict),
                              "cost_eur", Zero), N)
        safety_cost == QDiv(SystemSafetyCost(pt, n_stations_calculated), N)
        licensing_cost == QDiv(Get(Get(SystemDB.licensing, v.country, NoDict),
                                   pt, Zero), N)
    IN  IF ~IsBet(pt) /\ QPos(v.E_total_private)
        THEN [err |-> "AttributeError", cost |-> Zero]      \* self.D_t
        ELSE IF ~IsBet(pt) /\ IsNone(v.n_stations)
        THEN [err |-> "TypeError", cost |-> Zero]           \* 0 * None
        ELSE [err |-> NoErr,
              cost |-> QAdd(hardware_cost, QAdd(software_cost, QAdd(grid_cost,
                       QAdd(installation_cost, QAdd(site_cost,
                       QAdd(safety_cost, licensing_cost)))))),
              hardware_cost |-> hardware_cost, grid_cost |-> grid_cost,
              installation_cost |-> installation_cost,
              n_slow_calculated |-> n_slow_calculated,
              n_fast_calculated |-> n_fast_calculated,
              n_ultra_calculated |-> n_ultra_calculated]

\* InfrastructureSystem.compute: the charger counts, then the costs.  A count
\* given as None beside a given one raises in the battery-electric hardware sum.
InfrastructureSystem_compute(v, E) ==
    IF IsNone(v.n_slow) /\ IsNone(v.n_fast) /\ IsNone(v.n_ultra)
    THEN InfrastructureCosts(v, E, SystemChargerCount(E.slow, SystemDB.chargers.slow),
                             SystemChargerCount(E.fast, SystemDB.chargers.fast),
                             SystemChargerCount(E.ultra, SystemDB.chargers.ultra))
    ELSE IF IsBet(v.powertrain_type)
            /\ (IsNone(v.n_slow) \/ IsNone(v.n_fast) \/ IsNone(v.n_ultra))
    THEN [err |-> "TypeError", cost |-> Zero]
    ELSE InfrastructureCosts(v, E, OrZero(v.n_slow), OrZero(v.n_fast),
                             OrZero(v.n_ultra))

\* DatabaseLoader.get_taxes and TaxesSystem.compute
TaxesSystem_compute(v) ==
    Get(Get(Get(Get(SystemDB.taxes, v.country, NoDict), v.vehicle_weight_class, NoDict),
            v.powertrain_type, NoDict), "registration", Zero)

\* self.db['subsidies'][country][str(year)][vehicle_weight_class][powertrain_type],
\* KeyError taken as the empty entry
SystemSubsidyData(v) ==
    Get(Get(Get(Get(SystemDB.subsidies, v.country, NoDict), YearKey(v.year), NoDict),
            v.vehicle_weight_class, NoDict), v.powertrain_type, NoDict)

RECURSIVE FirstThreshold(_, _, _)
\* the loop of get_vehicle_subsidy over vehicle_subsidy_thresholds
FirstThreshold(ts, i, price) ==
    IF i > Len(ts) THEN Zero
    ELSE IF QLe(price, ts[i].max_purchase_price) THEN ts[i].subsidy
    ELSE FirstThreshold(ts, i + 1, price)

\* DatabaseLoader.get_vehicle_subsidy
get_vehicle_subsidy(v, price) ==
    LET d == SystemSubsidyData(v)
    IN  IF "vehicle_subsidy_thresholds" \in DOMAIN d
        THEN FirstThreshold(d.vehicle_subsidy_thresholds, 1, price)
        ELSE Get(d, "vehicle_subsidy", Zero)

\* SubsidiesSystem.compute: total_subsidies
SubsidiesSystem_compute(v, vehicle_cost, infrastructure_cost) ==
    LET infra_rate == Get(SystemSubsidyData(v), "infrastructure_subsidy_rate", Zero)
        N == IF v.vehicle_number > 1 THEN v.vehicle_number ELSE 1
    IN  QAdd(get_vehicle_subsidy(v, vehicle_cost),
             QDiv(QMul(infrastructure_cost, infra_rate), Q(N)))

\* loan_years of FinancingSystem: CAPEXSystem never sets it
SystemLoanYears == 10

\* the last statement of FinancingSystem.compute: <<ok, crf>>, not ok on a
\* division by 0
SystemCRF(r, n) ==
    IF QPos(r)
    THEN LET g == QPow(QAdd(One, r), n)
         IN  IF QIsZero(QSub(g, One)) THEN <<FALSE, One>>
             ELSE <<TRUE, QDiv(QMul(r, g), QSub(g, One))>>
    ELSE <<TRUE, One>>

\* FinancingSystem.compute: total_financing_cost and crf
FinancingSystem_compute(v, total_vehicle_cost) ==
    LET fin_params == SystemDB.financing
        r == QAdd(fin_params.base_interest_rate,
                  Get(fin_params.esg_adjustments, v.powertrain_type, Zero))
    IN  [cost |-> QMul(total_vehicle_cost, fin_params.origination_fee_rate),
         crf |-> SystemCRF(r, SystemLoanYears)[2]]

\* the total of CAPEXSystem.compute
system_total(o) ==
    QSub(QAdd(o.vehicle_cost_component,
         QAdd(o.infrastructure_cost_component,
         QAdd(o.taxes_component, o.financing_component))),
         o.subsidies_component)

\* the end of CAPEXSystem.compute: total_capex and capex_per_vehicle
system_assign_total(o) ==
    [o EXCEPT !.total_capex = system_total(o),
              !.capex_per_vehicle = QMul(system_total(o), o.crf)]

\* CAPEXSystem.compute after the vehicle cost: the children run in turn, infra
\* being the outcome of the infrastructure child and fin that of the financing
\* child.  settable: whether the library accepts the assignment to the
\* undeclared attribute infrastructure.Private_t.
CAPEXSystem_children(o, v, settable, infra, fin) ==
    IF v.id \notin DOMAIN v.vehicle_dict THEN [o EXCEPT !.err = "KeyError"]
    ELSE IF ~IsBet(v.powertrain_type) /\ ~settable
    THEN [o EXCEPT !.err = "AttributeError"]
    ELSE IF infra.err # NoErr THEN [o EXCEPT !.err = infra.err]
    ELSE system_assign_total(
            [o EXCEPT !.infrastructure_cost_component = infra.cost,
                      !.taxes_component = TaxesSystem_compute(v),
                      !.subsidies_component =
                          SubsidiesSystem_compute(v, o.vehicle_cost_component,
                                                  infra.cost),
                      !.financing_component = fin.cost,
                      !.crf = fin.crf])

CAPEXSystem_compute(o, v, settable) ==
    CAPEXSystem_children(
        [Begin(o) EXCEPT !.vehicle_cost_component = VehicleSystem_compute(v)],
        v, settable,
        InfrastructureSystem_compute(v, FleetSystem_compute(v)),
        FinancingSystem_compute(v, VehicleSystem_compute(v)))

(***************************************************************************)
(* TruckOPEXCalculator, the strict variant (functions/Opex_Calculator.py): *)
(* a missing country, category or leaf raises.  v is the record of         *)
(* inwards, o the record of outwards.  France is complete for diesel and   *)
(* electric N3 trucks; Germany has no tolls category.                      *)
(***************************************************************************)
TruckDB ==
    [France |->
        [taxes |-> [price_energy_km |-> R(1, 2),
                    tax_energy_c_e |-> [diesel |-> Q(2)],
                    tax_reg_c_k_L |-> [N3 |-> Q(100)],
                    tax_annual_c_k_L |-> [N3 |-> Q(50)],
                    regional_coefficient |-> One,
                    tax_CO2_c_e |-> Q(2),
                    B_env_c_k_e |-> [diesel |-> Q(10)]],
         tolls |-> [price_per_km |-> [N3 |-> [diesel |-> R(1, 4), electric |-> R(1, 8)]]],
         insurance |-> [insurance_rate_c_L_e_safety |->
                           [diesel |-> R(1, 20), electric |-> Zero]],
         crew |-> [wage_of_crew_rank |-> [driver |-> Q(300)]],
         energy |-> [energy_price_c_e |-> [diesel |-> R(3, 2), electric |-> R(1, 4)]]],
     Germany |->
        [taxes |-> [price_energy_km |-> R(1, 2),
                    tax_energy_c_e |-> [diesel |-> Q(3)],
                    tax_reg_c_k_L |-> [N3 |-> Q(120)],
                    tax_annual_c_k_L |-> [N3 |-> Q(60)],
                    regional_coefficient |-> One,
                    tax_CO2_c_e |-> Q(2),
                    B_env_c_k_e |-> NoDict]]]

TruckOutInit ==
    [o_taxes |-> Zero, o_tolls |-> Zero, o_insurance |-> Zero, o_crew |-> Zero,
     o_energy |-> Zero, o_opex_total |-> Zero, err |-> NoErr, calls |-> 0]

\* get_db_params: the exception it raises for (country, category), if any
truck_get_db_params(v, category) ==
    IF v.registration_country \notin DOMAIN TruckDB THEN "ValueError: country"
    ELSE IF category \notin DOMAIN TruckDB[v.registration_country]
    THEN "KeyError: category"
    ELSE NoErr

\* consumption_energy * price_energy_km * tax_energy * fuel_multiplier * EF_CO2
\* * tax_CO2 * regional_coefficient + tax_reg + tax_annual + B_env
TruckTaxes(v, price_energy_km, tax_energy, EF, tax_CO2, regional, tax_reg, tax_annual, B_env) ==
    QAdd(QMul(v.consumption_energy,
         QMul(price_energy_km,
         QMul(tax_energy,
         QMul(v.fuel_multiplier, QMul(EF, QMul(tax_CO2, regional)))))),
         QAdd(tax_reg, QAdd(tax_annual, B_env)))

truck_compute_o_taxes(o, v) ==
    LET e == truck_get_db_params(v, "taxes")
        taxes_db == TruckDB[v.registration_country].taxes
    IN  IF e # NoErr THEN [o EXCEPT !.err = e]
        ELSE [o EXCEPT !.o_taxes =
                 TruckTaxes(v, taxes_db.price_energy_km,
                            Get(taxes_db.tax_energy_c_e, v.type_energy, One),
                            v.EF_CO2, taxes_db.tax_CO2_c_e,
                            taxes_db.regional_coefficient,
                            Get(taxes_db.tax_reg_c_k_L, v.size_vehicle, Zero),
                            Get(taxes_db.tax_annual_c_k_L, v.size_vehicle, Zero),
                            Get(taxes_db.B_env_c_k_e, v.type_energy, Zero))]

truck_compute_o_tolls(o, v) ==
    IF Raised(o) THEN o ELSE
    LET e == truck_get_db_params(v, "tolls")
        prices == TruckDB[v.registration_country].tolls.price_per_km
    IN  IF e # NoErr THEN [o EXCEPT !.err = e]
        ELSE IF v.size_vehicle \notin DOMAIN prices
                \/ v.type_energy \notin DOMAIN prices[v.size_vehicle]
        THEN [o EXCEPT !.err = "ValueError: leaf"]
        ELSE [o EXCEPT !.o_tolls = QMul(prices[v.size_vehicle][v.type_energy],
                                        v.annual_distance_travel)]

\* the insurance floored at 0
truck_compute_o_insurance_clamped(o, v) ==
    IF Raised(o) THEN o ELSE
    LET e == truck_get_db_params(v, "insurance")
        rates == TruckDB[v.registration_country].insurance.insurance_rate_c_L_e_safety
    IN  IF e # NoErr THEN [o EXCEPT !.err = e]
        ELSE IF v.type_energy \notin DOMAIN rates
        THEN [o EXCEPT !.err = "ValueError: leaf"]
        ELSE [o EXCEPT !.o_insurance = QMax(Zero, QMul(rates[v.type_energy],
                                                       QSub(v.purchase_cost, v.RV)))]

truck_compute_o_insurance(o, v) ==
    IF Raised(o) THEN o ELSE
    LET e == truck_get_db_params(v, "insurance")
        rates == TruckDB[v.registration_country].insurance.insurance_rate_c_L_e_safety
    IN  IF e # NoErr THEN [o EXCEPT !.err = e]
        ELSE IF v.type_energy \notin DOMAIN rates
        THEN [o EXCEPT !.err = "ValueError: leaf"]
        ELSE [o EXCEPT !.o_insurance = QMul(rates[v.type_energy],
                                            QSub(v.purchase_cost, v.RV))]

truck_compute_o_crew(o, v) ==
    IF Raised(o) THEN o ELSE
    LET e == truck_get_db_params(v, "crew")
        wage_of_driver == TruckDB[v.registration_country].crew.wage_of_crew_rank.driver
    IN  IF e # NoErr THEN [o EXCEPT !.err = e]
        ELSE [o EXCEPT !.o_crew = QMul(wage_of_driver,
                                        QMul(v.N_years, Q(v.team_count)))]

truck_compute_o_energy(o, v) ==
    IF Raised(o) THEN o ELSE
    LET e == truck_get_db_params(v, "energy")
        prices == TruckDB[v.registration_country].energy.energy_price_c_e
    IN  IF e # NoErr THEN [o EXCEPT !.err = e]
        ELSE IF v.type_energy \notin DOMAIN prices
        THEN [o EXCEPT !.err = "ValueError: leaf"]
        ELSE [o EXCEPT !.o_energy = QMul(v.consumption_energy, prices[v.type_energy])]

\* the total without the maintenance cost
truck_total_unmaintained(o, v) ==
    QAdd(o.o_taxes, QAdd(o.o_tolls, QAdd(o.o_insurance, QAdd(o.o_crew, o.o_energy))))

\* o_taxes + o_tolls + o_insurance + o_crew + o_energy + maintenance_cost
truck_total(o, v) ==
    QAdd(o.o_taxes, QAdd(o.o_tolls, QAdd(o.o_insurance, QAdd(o.o_crew,
         QAdd(o.o_energy, v.maintenance_cost)))))

truck_assign_total(o, v) ==
    IF Raised(o) THEN o ELSE
    [o EXCEPT !.o_opex_total = truck_total(o, v)]

\* TruckOPEXCalculator.compute: the first exception ends the call
truck_compute(o, v) ==
    truck_assign_total(
    truck_compute_o_energy(
    truck_compute_o_crew(
    truck_compute_o_insurance(
    truck_compute_o_tolls(
    truck_compute_o_taxes(Begin(o), v), v), v), v), v), v)

(***************************************************************************)
(* TruckOPEXCalculator, the permissive variant                             *)
(* (tco-eco4impact/functions/Opex_Calculator.py): only a missing country   *)
(* raises, every other missing entry has a default.  The keys of its       *)
(* database are upper case.                                                *)
(***************************************************************************)
TruckDocDB ==
    [France |->
        [external_factors |-> [price_energy_km |-> [h1 |-> [DIESEL |-> R(1, 2)]]],
         tax_energy_c_e |-> [DIESEL |-> Q(2)],
         tax_reg_c_k_L |-> [N3 |-> Q(100)],
         tax_annual_c_k_L |-> [N3 |-> Q(50)],
         regional_coefficient |-> One,
         tax_CO2_c_e |-> Q(2),
         B_env_c_k_e |-> [DIESEL |-> Q(10)],
         tolls |-> [price_per_km |-> [N3 |-> [DIESEL |-> R(1, 4)]]],
         insurance |-> [insurance_rate_c_L_e_safety |-> [DIESEL |-> R(1, 20)]],
         crew |-> [wage_of_crew_rank |-> [driver |-> Q(300)]],
         energy |-> [energy_price_c_e |-> [DIESEL |-> R(3, 2), ELECTRIC |-> R(1, 4)]]],
     Germany |->
        [tax_reg_c_k_L |-> [N3 |-> Q(120)]]]

\* str.upper().strip() on the strings the model uses
Upper(s) ==
    CASE s \in {"diesel", "DIESEL", " diesel "} -> "DIESEL"
      [] s \in {"electric", "ELECTRIC"} -> "ELECTRIC"
      [] s \in {"hydrogen", "HYDROGEN"} -> "HYDROGEN"
      [] s \in {"n3", "N3"} -> "N3"
      [] s \in {"n1", "N1"} -> "N1"
      [] OTHER -> s

normalize_energy_type(v) == IF v.type_energy = "" THEN "DIESEL" ELSE Upper(v.type_energy)
normalize_vehicle_size(v) == IF v.size_vehicle = "" THEN "N3" ELSE Upper(v.size_vehicle)

\* compute_o_taxes .. compute_o_energy with get_country_data, then the total
doc_compute(o, v) ==
    LET o0 == [o EXCEPT !.err = NoErr, !.calls = o.calls + 1]
        country_data == TruckDocDB[v.registration_country]
        energy_key == normalize_energy_type(v)
        vehicle_key == normalize_vehicle_size(v)
        price_energy_km ==
            Get(Get(Get(Get(country_data, "external_factors", NoDict),
                        "price_energy_km", NoDict), "h1", NoDict), energy_key, Zero)
        prices == Get(Get(country_data, "tolls", NoDict), "price_per_km", NoDict)
        rate_table == Get(Get(country_data, "insurance", NoDict),
                          "insurance_rate_c_L_e_safety", NoDict)
        price_table == Get(Get(country_data, "energy", NoDict),
                           "energy_price_c_e", NoDict)
        o5 == [o0 EXCEPT
                 !.o_taxes =
                     TruckTaxes(v, price_energy_km,
                                Get(Get(country_data, "tax_energy_c_e", NoDict),
                                    energy_key, One),
                                v.EF_CO2,
                                Get(country_data, "tax_CO2_c_e", Zero),
                                Get(country_data, "regional_coefficient", One),
                                Get(Get(country_data, "tax_reg_c_k_L", NoDict),
                                    vehicle_key, Zero),
                                Get(Get(country_data, "tax_annual_c_k_L", NoDict),
                                    vehicle_key, Zero),
                                Get(Get(country_data, "B_env_c_k_e", NoDict),
                                    energy_key, Zero)),
                 !.o_tolls =
                     IF vehicle_key \notin DOMAIN prices THEN Zero
                     ELSE IF energy_key \notin DOMAIN prices[vehicle_key] THEN Zero
                     ELSE QMul(prices[vehicle_key][energy_key],
                               v.annual_distance_travel),
                 !.o_insurance =
                     QMul(Get(rate_table, energy_key, R(3, 100)),
                          QSub(v.purchase_cost, v.RV)),
                 !.o_crew =
                     QMul(Get(Get(Get(country_data, "crew", NoDict),
                                  "wage_of_crew_rank", NoDict), "driver", Zero),
                          QMul(v.N_years, Q(v.team_count))),
                 !.o_energy =
                     QMul(v.consumption_energy, Get(price_table, energy_key, Zero))]
    IN  IF v.registration_country \notin DOMAIN TruckDocDB
        THEN [o0 EXCEPT !.err = "ValueError: country"]
        ELSE [o5 EXCEPT !.o_opex_total = truck_total(o5, v)]

(***************************************************************************)
(* ShipOPEXCalculator (functions/Opex_Calculator.py; the calculator of     *)
(* functions/Opex_Calculator_ships.py has the same steps in the same       *)
(* order).  v is the record of inwards, o the record of outwards.  France  *)
(* is complete; Germany keeps its taxes under "taxes", its insurance rates *)
(* per energy, and has no maintenance category.                            *)
(***************************************************************************)
ShipDB ==
    [France |->
        [taxes_opex |->
            [tax_energy_c_e |->
                [co2_price |-> Q(5),
                 ro_pax_large |-> [DIESEL |-> <<Q(1), Q(2), Q(3)>>,
                                   LNG    |-> <<Q(1), Q(2)>>,
                                   HFO    |-> <<Q(1), Q(2), Q(3), Q(4)>>]]],
         ports |-> [ro_pax_large |-> [port_parameters |-> <<Q(2), Q(3)>>,
                                      port_discounts |-> <<R(1, 2), One>>]],
         insurance |-> [insurance_per_type |-> [ro_pax_large |-> R(1, 50)]],
         crew |-> [wage_of_crew_rank |-> [seafarer |-> Q(100)]],
         energy |-> [energy_price_c_e |-> [DIESEL |-> R(3, 2), LNG |-> One]],
         maintenance |-> [ro_pax_large |-> R(1, 10)]],
     Germany |->
        [taxes |->
            [tax_energy_c_e |->
                [co2_price |-> Q(4),
                 ro_pax_large |-> [DIESEL |-> <<Q(2), Q(2), Q(2)>>]]],
         ports |-> [ro_pax_large |-> [port_parameters |-> <<Q(3)>>,
                                      port_discounts |-> <<One>>]],
         insurance |-> [insurance_per_energy |-> [DIESEL |-> R(1, 40)]],
         crew |-> [wage_of_crew_rank |-> NoDict],
         energy |-> [energy_price_c_e |-> [DIESEL |-> Q(2)]]]]

ShipOutInit ==
    [o_taxes |-> Zero, o_ports |-> Zero, o_insurance |-> Zero, o_crew |-> Zero,
     o_maintenance |-> Zero, o_energy |-> Zero, o_opex_total |-> Zero,
     err |-> NoErr, calls |-> 0]

\* the key under which get_db_params finds the category: "taxes_opex" and
\* "taxes" stand for each other
ShipCategoryKey(country, category) ==
    IF category \in {"taxes_opex", "taxes"} /\ country \in DOMAIN ShipDB
       /\ "taxes_opex" \notin DOMAIN ShipDB[country]
    THEN "taxes"
    ELSE category

\* get_db_params: the exception it raises for (country, category), if any
ship_get_db_params(country, category) ==
    IF country \notin DOMAIN ShipDB THEN "ValueError: country"
    ELSE IF ShipCategoryKey(country, category) \notin DOMAIN ShipDB[country]
    THEN "ValueError: category"
    ELSE NoErr

\* what get_db_params returns when it does not raise
ShipParams(country, category) == ShipDB[country][ShipCategoryKey(country, category)]

\* SHIP_CLASS_TO_DB_KEY.get(ship_class, ship_class)
map_ship_class_to_db_key(ship_class) ==
    IF ship_class \in {"large", "big", "cargo_large"} THEN "ro_pax_large"
    ELSE ship_class

compute_o_taxes_ship(o, v) ==
    LET e == ship_get_db_params(v.country_reg, "taxes_opex")
        tax_energy == ShipParams(v.country_reg, "taxes_opex").tax_energy_c_e
        class_key == map_ship_class_to_db_key(v.ship_class)
        factors == tax_energy[class_key][v.energy_type]
        fuel_mass_ton == QDiv(v.fuel_mass_kg, Q(1000))
    IN  IF e # NoErr THEN [o EXCEPT !.err = e]
        ELSE IF class_key \notin DOMAIN tax_energy THEN [o EXCEPT !.o_taxes = Zero]
        ELSE IF v.energy_type \notin DOMAIN tax_energy[class_key]
        THEN [o EXCEPT !.o_taxes = Zero]
        ELSE IF Len(factors) < 3 THEN [o EXCEPT !.o_taxes = Zero]
        ELSE IF Len(factors) > 3
        THEN [o EXCEPT !.err = "ValueError: too many values to unpack"]
        ELSE [o EXCEPT !.o_taxes =
                QMul(QAdd(QAdd(QMul(fuel_mass_ton, factors[1]),
                               QMul(fuel_mass_ton, factors[2])),
                          QMul(fuel_mass_ton, factors[3])),
                     tax_energy.co2_price)]

RECURSIVE ZipSum(_, _, _)
\* the loop over zip(params, discounts) from index i on
ZipSum(params, discounts, i) ==
    IF i > Len(params) \/ i > Len(discounts) THEN Zero
    ELSE QAdd(QMul(params[i], discounts[i]), ZipSum(params, discounts, i + 1))

compute_o_ports_ship(o, v) ==
    IF Raised(o) THEN o ELSE
    LET e == ship_get_db_params(v.country_oper, "ports")
        ports_db == ShipParams(v.country_oper, "ports")
        class_key == map_ship_class_to_db_key(v.ship_class)
    IN  IF e # NoErr THEN [o EXCEPT !.err = e]
        ELSE IF class_key \notin DOMAIN ports_db THEN [o EXCEPT !.o_ports = Zero]
        ELSE [o EXCEPT !.o_ports =
                QMul(ZipSum(Get(ports_db[class_key], "port_parameters", <<>>),
                            Get(ports_db[class_key], "port_discounts", <<>>), 1),
                     v.GT)]

compute_o_insurance_ship(o, v) ==
    IF Raised(o) THEN o ELSE
    LET e == ship_get_db_params(v.country_reg, "insurance")
        insurance_db == ShipParams(v.country_reg, "insurance")
        class_key == map_ship_class_to_db_key(v.ship_class)
        per_type == Get(insurance_db, "insurance_per_type", NoDict)
        insurance_rate ==
            IF class_key \in DOMAIN per_type THEN per_type[class_key]
            ELSE Get(Get(insurance_db, "insurance_per_energy", NoDict),
                     v.energy_type, Zero)
    IN  IF e # NoErr THEN [o EXCEPT !.err = e]
        ELSE [o EXCEPT !.o_insurance = QMul(insurance_rate,
                                            QSub(v.purchase_cost, Zero))]

RECURSIVE TotalCrew(_, _)
\* the loop over crew_list from index i on: the sum of the team sizes
TotalCrew(crew_list, i) ==
    IF i > Len(crew_list) THEN 0
    ELSE Get(crew_list[i], "team_size", 0) + TotalCrew(crew_list, i + 1)

compute_o_crew_ship(o, v) ==
    IF Raised(o) THEN o ELSE
    LET e == ship_get_db_params(v.country_reg, "crew")
        wages == ShipParams(v.country_reg, "crew").wage_of_crew_rank
        annual_cost ==
            IF QPos(v.crew_monthly_total) THEN QMul(v.crew_monthly_total, Q(12))
            ELSE QMul(Get(wages, "seafarer", Zero), Q(TotalCrew(v.crew_list, 1)))
    IN  IF e # NoErr THEN [o EXCEPT !.err = e]
        ELSE [o EXCEPT !.o_crew = QMul(annual_cost, v.planning_horizon_years)]

compute_o_energy_ship(o, v) ==
    IF Raised(o) THEN o ELSE
    LET e == ship_get_db_params(v.country_oper, "energy")
        prices == ShipParams(v.country_oper, "energy").energy_price_c_e
    IN  IF e # NoErr THEN [o EXCEPT !.err = e]
        ELSE [o EXCEPT !.o_energy = QMul(v.annual_energy_consumption_kWh,
                                         Get(prices, v.energy_type, Zero))]

\* maintenance_db.get(class_key, 0.0), for a country that has the category
maintenance_rate(v) ==
    Get(ShipParams(v.country_oper, "maintenance"),
        map_ship_class_to_db_key(v.ship_class), Zero)

compute_o_maintenance_ship(o, v) ==
    IF Raised(o) THEN o ELSE
    LET e == ship_get_db_params(v.country_oper, "maintenance")
        base_sum == QAdd(QAdd(QAdd(QAdd(o.o_taxes, o.o_ports), o.o_insurance),
                              o.o_crew), o.o_energy)
    IN  IF e # NoErr THEN [o EXCEPT !.err = e]
        ELSE [o EXCEPT !.o_maintenance = QMul(base_sum, maintenance_rate(v))]

\* the last statements of ShipOPEXCalculator.compute
ship_assign_total(o, v) ==
    IF Raised(o) THEN o ELSE
    [o EXCEPT !.o_opex_total =
        QAdd(QAdd(QAdd(QAdd(QAdd(o.o_taxes, o.o_ports), o.o_insurance), o.o_crew),
                  o.o_maintenance), o.o_energy)]

\* the steps in the order of the earlier calculator (Opex_Calculator_ships.py at
\* the root): the maintenance before the energy
ship_compute_maintenance_early(o, v) ==
    ship_assign_total(
    compute_o_energy_ship(
    compute_o_maintenance_ship(
    compute_o_crew_ship(
    compute_o_insurance_ship(
    compute_o_ports_ship(
    compute_o_taxes_ship(Begin(o), v), v), v), v), v), v), v)

\* ShipOPEXCalculator.compute: the first exception ends the call
ship_compute(o, v) ==
    ship_assign_total(
    compute_o_maintenance_ship(
    compute_o_energy_ship(
    compute_o_crew_ship(
    compute_o_insurance_ship(
    compute_o_ports_ship(
    compute_o_taxes_ship(Begin(o), v), v), v), v), v), v), v)

(***************************************************************************)
(* ResidualValueCalculator (functions/rv_calculator.py).  v is the vehicle *)
(* port, c the country port, o the record of outwards.  compute() catches  *)
(* every exception of its steps and prints it: err keeps the exception and *)
(* the step that raised it, the outwards assigned before it keep their new *)
(* values and the others the values of the call before.  France lacks the  *)
(* external factors of HEV; Germany lacks yearly_obsolescence_rate.        *)
(***************************************************************************)
RVCountries ==
    [France |->
        [depreciation |->
            [depreciation_rate_per_year |->
                [DIESEL |-> Q(10), BEV |-> Q(10), electric |-> Q(10), HEV |-> Q(10)],
             r_usage |->
                [DIESEL |-> One, BEV |-> One, electric |-> One, HEV |-> One],
             coef_depreciation_maintenance |->
                [DIESEL |-> R(1, 2), BEV |-> R(1, 2), electric |-> R(1, 2),
                 HEV |-> R(1, 2)]],
         yearly_obsolescence_rate |->
            [DIESEL |-> R(1, 10), BEV |-> R(1, 5), electric |-> R(1, 5),
             HEV |-> R(1, 10)],
         external_factors |->
            [energy_price_factor |-> [DIESEL |-> Q(-2), BEV |-> Q(3), electric |-> Q(3)],
             CO2_taxes_factor |-> Q(-1),
             subsidies_factor |-> [DIESEL |-> Zero, BEV |-> Q(2), electric |-> Q(2)]]],
     Germany |->
        [depreciation |->
            [depreciation_rate_per_year |-> [DIESEL |-> Q(20)],
             r_usage |-> [DIESEL |-> One],
             coef_depreciation_maintenance |-> [DIESEL |-> One]],
         external_factors |->
            [energy_price_factor |-> [DIESEL |-> Q(-1)],
             CO2_taxes_factor |-> Q(-1),
             subsidies_factor |-> [DIESEL |-> Zero]]]]

\* db_rv['vehicle']
RVVehicles ==
    [heating_value |-> [DIESEL |-> Q(40), HEV |-> Q(40)],
     d_slow |-> [electric |-> One], d_fast |-> [electric |-> Q(2)],
     d_ultra |-> [electric |-> Q(3)], k_d |-> [electric |-> R(1, 100)]]

RVOutInit ==
    [total_depreciation |-> Zero, efficiency_penalty |-> Zero,
     obsolescence_penalty |-> Zero, charging_penalty |-> Zero,
     warranty_penalty |-> Zero, total_impact_health |-> Zero,
     total_external_factors |-> Zero, rv |-> Zero, err |-> NoErr, calls |-> 0]

RECURSIVE HasPath(_, _)
\* d[p[1]][p[2]]... raises no KeyError
HasPath(d, p) ==
    IF p = <<>> THEN TRUE
    ELSE Head(p) \in DOMAIN d /\ HasPath(d[Head(p)], Tail(p))

compute_depreciation(o, v) ==
    LET country == v.registration_country
        e == v.type_energy
        dep == RVCountries[country].depreciation
        vehicle_age == v.current_year - v.year_purchase
        dep_per_year == QMul(dep.depreciation_rate_per_year[e], Q(vehicle_age))
        dep_by_usage == QMul(dep.r_usage[e], v.travel_measure)
        dep_maintenance == QMul(dep.coef_depreciation_maintenance[e],
                                v.maintenance_cost)
    IN  IF ~ (/\ HasPath(RVCountries, <<country, "depreciation",
                                        "depreciation_rate_per_year", e>>)
              /\ HasPath(dep, <<"r_usage", e>>)
              /\ HasPath(dep, <<"coef_depreciation_maintenance", e>>))
        THEN [o EXCEPT !.err = "KeyError: compute_depreciation"]
        ELSE [o EXCEPT !.total_depreciation =
                QMul(QSub(v.purchase_cost,
                          QAdd(QAdd(dep_per_year, dep_by_usage), dep_maintenance)),
                     Q(v.vehicle_number))]

\* eta of a combustion engine: 3600 / (SFC x Q_HV), as <<exception, value>>
n_ice(v) ==
    LET d == QMul(v.minimum_fuel_consumption,
                  RVVehicles.heating_value[v.type_energy])
    IN  IF v.type_energy \notin DOMAIN RVVehicles.heating_value
        THEN <<"KeyError: compute_eficiency", Zero>>
        ELSE IF QIsZero(d) THEN <<"ZeroDivisionError: compute_eficiency", Zero>>
        ELSE <<NoErr, QDiv(Q(3600), d)>>

\* eta of an electric drive: benchmark over real consumption, 0.85 without
\* a real consumption; the benchmark is computed first
n_ev(v) ==
    IF QIsZero(v.autonomy) THEN <<"ZeroDivisionError: compute_eficiency", Zero>>
    ELSE IF QPos(v.consumption_real)
    THEN <<NoErr, QDiv(QDiv(v.C_bat_kwh, v.autonomy), v.consumption_real)>>
    ELSE <<NoErr, R(85, 100)>>

\* the hybrid branch, once n_ice = ice and n_ev = ev are known
n_hybrid(v, ice, ev) ==
    LET a == v.utility_factor
        den == QAdd(QDiv(a, ev), QDiv(QSub(One, a), ice))
    IN  IF ~ (QPos(a) /\ QLt(a, One)) THEN <<NoErr, ice>>
        ELSE IF QIsZero(ev) \/ QIsZero(ice) \/ QIsZero(den)
        THEN <<"ZeroDivisionError: compute_eficiency", Zero>>
        ELSE <<NoErr, QDiv(One, den)>>

\* n_f of compute_eficiency, as <<exception, value>>
n_f(v) ==
    IF v.type_energy \in {"DIESEL", "BIO_DIESEL", "HVO", "E_DIESEL", "CNG", "LNG",
                          "H2_ICE"}
    THEN n_ice(v)
    ELSE IF v.type_energy \in {"BEV", "FCEV"} THEN n_ev(v)
    ELSE IF v.type_energy \in {"HEV", "PHEV"}
    THEN IF n_ice(v)[1] # NoErr THEN n_ice(v)
         ELSE IF n_ev(v)[1] # NoErr THEN n_ev(v)
         ELSE n_hybrid(v, n_ice(v)[2], n_ev(v)[2])
    ELSE <<NoErr, R(40, 100)>>

\* the last statement of compute_eficiency, n = n_f(v)
efficiency_assign(o, n) ==
    IF n[1] # NoErr THEN [o EXCEPT !.err = n[1]]
    ELSE [o EXCEPT !.efficiency_penalty = QMul(QSub(One, n[2]), Q(100))]

compute_eficiency(o, v) == IF Raised(o) THEN o ELSE efficiency_assign(o, n_f(v))

compute_obsolescence(o, v) ==
    IF Raised(o) THEN o ELSE
    LET p == <<v.registration_country, "yearly_obsolescence_rate", v.type_energy>>
        rate == RVCountries[p[1]][p[2]][p[3]]
        DM == Exp(QMul(QSub(Zero, rate), Q(v.current_year - v.powertrain_model_year)))
    IN  IF ~ HasPath(RVCountries, p)
        THEN [o EXCEPT !.err = "KeyError: compute_obsolescence"]
        ELSE [o EXCEPT !.obsolescence_penalty = QMul(QSub(One, DM), Q(100))]

\* the charging penalty of a battery-electric vehicle, from the degradation
\* factors d_slow, d_fast, d_ultra and the scaling k_d
charging_degradation(v, d_slow, d_fast, d_ultra, k_d) ==
    LET degradation_per_cycle ==
            QAdd(QAdd(QMul(v.S_slow, d_slow), QMul(v.S_fast, d_fast)),
                 QMul(v.S_ultra, d_ultra))
        cycles == IF QPos(v.C_bat_kwh) /\ QPos(v.DoD)
                  THEN QDiv(v.E_annual_kwh, QMul(v.C_bat_kwh, v.DoD))
                  ELSE Zero
        D == QMul(cycles, degradation_per_cycle)
        health_charging == Exp(QMul(QSub(Zero, k_d), D))
    IN  QMul(QSub(One, health_charging), Q(100))

\* the degradation computed whatever the energy type
compute_charging_unguarded(o, v) ==
    IF Raised(o) THEN o ELSE
    [o EXCEPT !.charging_penalty =
        charging_degradation(v, RVVehicles.d_slow.electric,
            RVVehicles.d_fast.electric, RVVehicles.d_ultra.electric,
            RVVehicles.k_d.electric)]

\* compute_charging, the same in rv_functions.py
compute_charging(o, v) ==
    IF Raised(o) THEN o ELSE
    LET e == v.type_energy
    IN  IF e = "electric"
        THEN IF \E k \in {"d_slow", "d_fast", "d_ultra", "k_d"} :
                   ~ HasPath(RVVehicles, <<k, e>>)
             THEN [o EXCEPT !.err = "KeyError: compute_charging"]
             ELSE [o EXCEPT !.charging_penalty =
                     charging_degradation(v, RVVehicles.d_slow[e],
                         RVVehicles.d_fast[e], RVVehicles.d_ultra[e],
                         RVVehicles.k_d[e])]
        ELSE [o EXCEPT !.charging_penalty = Zero]

\* DW of compute_warranty
DW(v) ==
    LET elapsed == IF v.type_warranty = "year"
                   THEN Q(v.current_year - v.year_purchase)
                   ELSE v.travel_measure
    IN  IF v.type_warranty \in {"year", "km"} /\ QPos(v.warranty)
        THEN QSub(One, QDiv(elapsed, v.warranty))
        ELSE Zero

compute_warranty(o, v) ==
    IF Raised(o) THEN o ELSE
    [o EXCEPT !.warranty_penalty = QMul(QSub(One, DW(v)), Q(100))]

\* the last statements of compute_impact_health
impact_health_assign(o, v) ==
    IF Raised(o) THEN o ELSE
    [o EXCEPT !.total_impact_health =
        QMul(QAdd(QAdd(QAdd(o.efficiency_penalty, o.obsolescence_penalty),
                       o.charging_penalty), o.warranty_penalty),
             Q(v.vehicle_number))]

compute_impact_health(o, v) ==
    IF Raised(o) THEN o ELSE
    impact_health_assign(
    compute_warranty(
    compute_charging(
    compute_obsolescence(
    compute_eficiency(o, v), v), v), v), v)

compute_external_factors(o, v, c) ==
    IF Raised(o) THEN o ELSE
    LET country == v.registration_country
        e == v.type_energy
        ef == RVCountries[country].external_factors
    IN  IF ~ (/\ HasPath(RVCountries, <<country, "external_factors",
                                        "energy_price_factor", e>>)
              /\ HasPath(ef, <<"CO2_taxes_factor">>)
              /\ HasPath(ef, <<"subsidies_factor", e>>))
        THEN [o EXCEPT !.err = "KeyError: compute_external_factors"]
        ELSE [o EXCEPT !.total_external_factors =
                QMul(QAdd(QAdd(QMul(ef.energy_price_factor[e], c.energy_price),
                               QMul(c.c02_taxes, ef.CO2_taxes_factor)),
                          QMul(c.subsidies, ef.subsidies_factor[e])),
                     Q(v.vehicle_number))]

\* the last statement of the try block
rv_assign(o) ==
    IF Raised(o) THEN o
    ELSE IF QIsZero(o.total_impact_health)
    THEN [o EXCEPT !.err = "ZeroDivisionError: compute"]
    ELSE [o EXCEPT !.rv = QAdd(QDiv(o.total_depreciation, o.total_impact_health),
                               o.total_external_factors)]

\* ResidualValueCalculator.compute: the try block, then the except clause
\* that prints the exception and returns
rv_compute(o, v, c) ==
    rv_assign(
    compute_external_factors(
    compute_impact_health(
    compute_depreciation(Begin(o), v), v), v, c))

(***************************************************************************)
(* The sub-systems of main.py that compute one penalty each: TechSystem,   *)
(* WarrantySystem and ChargingSystem.  v is the record of inwards of the   *)
(* three, o the record of their outwards.  No exception is caught.         *)
(***************************************************************************)
HealthOutInit ==
    [tech_penalty |-> Zero, warranty_penalty |-> Zero, charging_penalty |-> Zero,
     err |-> NoErr, calls |-> 0]

\* max(0.0, min(hi, x))
Clamp(x, hi) == QMax(Zero, QMin(hi, x))

\* n of TechSystem.compute, as <<exception, value>>
TechSystem_n(v) ==
    LET d == QMul(v.minimum_fuel_consumption, v.heating_value)
        alpha == v.utility_factor
        denominator == QAdd(QDiv(alpha, v.n_EV), QDiv(QSub(One, alpha), v.n_ICE))
    IN  IF v.type_energy \in {"Diesel_fosile", "eDiesel", "H2-ICE"}
        THEN IF QIsZero(d) THEN <<"ZeroDivisionError: TechSystem", Zero>>
             ELSE <<NoErr, QDiv(Q(3600), d)>>
        ELSE IF v.type_energy \in {"BET", "FCET"}
        THEN IF QPos(v.consumption_real)
             THEN <<NoErr, QDiv(v.consumption_benchmark, v.consumption_real)>>
             ELSE <<NoErr, R(85, 100)>>
        ELSE IF v.type_energy \in {"HEV", "PHEV"}
        THEN IF QIsZero(v.n_EV) \/ QIsZero(v.n_ICE)
             THEN <<"ZeroDivisionError: TechSystem", Zero>>
             ELSE IF QPos(denominator) THEN <<NoErr, QDiv(One, denominator)>>
             ELSE <<NoErr, Zero>>
        ELSE <<NoErr, Zero>>

\* the last statements of TechSystem.compute, n = TechSystem_n(v)
TechSystem_assign(o, n) ==
    IF n[1] # NoErr THEN [o EXCEPT !.err = n[1]]
    ELSE [o EXCEPT !.tech_penalty = Clamp(QMul(QSub(One, n[2]), Q(100)), Q(100))]

TechSystem_compute(o, v) == TechSystem_assign(Begin(o), TechSystem_n(v))

WarrantySystem_compute(o, v) ==
    LET elapsed == Q(v.current_year - v.year_purchase)
        DWc == IF QPos(v.warranty)
               THEN Clamp(QSub(One, QDiv(elapsed, v.warranty)), One)
               ELSE Zero
    IN  [Begin(o) EXCEPT !.warranty_penalty = QMul(QSub(One, DWc), Q(100))]

ChargingSystem_compute(o, v) ==
    IF v.type_energy = "BET"
    THEN [Begin(o) EXCEPT !.charging_penalty =
            Clamp(charging_degradation(v, v.d_slow, v.d_fast, v.d_ultra, v.k_d),
                  Q(100))]
    ELSE [Begin(o) EXCEPT !.charging_penalty = Zero]

(***************************************************************************)
(* ResidualValueSystem of main.py: the root system with the children       *)
(* depreciation_module and health_module, the latter with the children     *)
(* tech, quality, obsolescence, warranty and charging.  v is the tree of   *)
(* inwards, o the record of the outwards of all the systems.  A run with   *)
(* no driver executes the children of a system in the order they were      *)
(* added and then the compute() of the system itself.                      *)
(***************************************************************************)
RVSystemOutInit ==
    [depreciation |-> Zero, tech_penalty |-> Zero, type_penalty |-> Zero,
     obsolence_penalty |-> Zero, warranty_penalty |-> Zero,
     charging_penalty |-> Zero, impact_health |-> Zero, residual_value |-> Zero,
     err |-> NoErr, calls |-> 0]

DepreciationSystem_compute(o, v) ==
    LET depreciation_per_year == QMul(v.depreciation_rate_per_year, v.age_vehicle)
        depreciation_by_usage == QMul(v.depreciation_rate_by_usage, v.travel_measure)
        depreciation_due_to_maintenance ==
            QMul(v.coef_depreciation_maintenance, v.maintenance_cost)
    IN  [o EXCEPT !.depreciation =
            QMax(Zero, QSub(QSub(QSub(v.purchase_cost, depreciation_per_year),
                                 depreciation_by_usage),
                            depreciation_due_to_maintenance))]

QualityFuelSystem_compute(o, v) ==
    LET d == QMul(v.LHV_ref, v.density_ref)
        DF == QDiv(QMul(v.LHV, v.density), d)
    IN  IF v.type_energy \in {"Diesel_fosile", "eDiesel", "GNV", "H2-ICE", "HEV", "PHEV"}
        THEN IF QIsZero(d) THEN [o EXCEPT !.err = "ZeroDivisionError: QualityFuelSystem"]
             ELSE [o EXCEPT !.type_penalty =
                      QMul(QMax(QSub(One, DF), QSub(DF, One)), Q(100))]
        ELSE [o EXCEPT !.type_penalty = Zero]

ObsolescenceSystem_compute(o, v) ==
    LET years_diff == Q(v.current_year - v.powertrain_model_year)
        distance_diff == QSub(v.distance_travel, v.inicial_distance)
        DM == IF v.type_vehicle = "Truck"
              THEN Exp(QMul(QSub(Zero, v.lambda_y), years_diff))
              ELSE IF v.type_vehicle = "Ship"
              THEN Exp(QMul(QSub(Zero, v.lambda_d), distance_diff))
              ELSE One
    IN  [o EXCEPT !.obsolence_penalty =
            Clamp(QMul(QSub(One, DM), Q(100)), Q(100))]

\* the outward k of a child after its compute() returned r, or its exception
ChildRan(o, r, k) ==
    IF Raised(o) THEN o
    ELSE IF Raised(r) THEN [o EXCEPT !.err = r.err]
    ELSE [o EXCEPT ![k] = r[k]]

\* the five children of health_module, in the order of setup
health_children(o, h) ==
    LET o1 == ChildRan(o, TechSystem_compute(o, h.tech), "tech_penalty")
        o2 == ChildRan(o1, QualityFuelSystem_compute(o1, h.quality), "type_penalty")
        o3 == ChildRan(o2, ObsolescenceSystem_compute(o2, h.obsolescence),
                       "obsolence_penalty")
        o4 == ChildRan(o3, WarrantySystem_compute(o3, h.warranty), "warranty_penalty")
    IN  ChildRan(o4, ChargingSystem_compute(o4, h.charging), "charging_penalty")

\* child.type_vehicle = self.type_vehicle; child.type_energy = self.type_energy
Connect(child, self) ==
    [child EXCEPT !.type_vehicle = self.type_vehicle, !.type_energy = self.type_energy]

\* ImpactHealthSystem.compute: the inwards of health_module after it
ImpactHealthSystem_connect(h) ==
    [h EXCEPT !.tech = Connect(h.tech, h), !.quality = Connect(h.quality, h),
              !.obsolescence = Connect(h.obsolescence, h),
              !.charging = Connect(h.charging, h)]

\* ImpactHealthSystem.compute: the outward
ImpactHealthSystem_compute(o) ==
    [o EXCEPT !.impact_health =
        QAdd(QAdd(QAdd(QAdd(o.tech_penalty, o.type_penalty), o.obsolence_penalty),
                  o.warranty_penalty),
             o.charging_penalty)]

\* ResidualValueSystem.compute: the inwards of the tree after it
ResidualValueSystem_connect(v) ==
    [v EXCEPT !.depreciation_module = Connect(v.depreciation_module, v),
              !.health_module = Connect(v.health_module, v)]

\* ResidualValueSystem.compute: the outward
ResidualValueSystem_compute(o, v) ==
    IF QPos(o.impact_health)
    THEN [o EXCEPT !.residual_value =
             QAdd(QDiv(o.depreciation, QDiv(o.impact_health, Q(100))), v.taxes)]
    ELSE [o EXCEPT !.residual_value = QAdd(o.depreciation, v.taxes)]

\* run_drivers() on the root: depreciation_module, then health_module (its
\* children, then its compute), then the compute of the root; an exception of
\* a child ends the run.  The result is the inwards and the outwards after it.
ResidualValueSystem_run(o, v) ==
    LET o1 == DepreciationSystem_compute(Begin(o), v.depreciation_module)
        o2 == health_children(o1, v.health_module)
        v1 == [v EXCEPT !.health_module = ImpactHealthSystem_connect(v.health_module)]
    IN  IF Raised(o2) THEN [v |-> v, o |-> o2]
        ELSE [v |-> ResidualValueSystem_connect(v1),
              o |-> ResidualValueSystem_compute(ImpactHealthSystem_compute(o2), v1)]

(***************************************************************************)
(* State                                                                   *)
(***************************************************************************)
VARIABLES
    calc,    \* the calculator (System) this run has constructed
    vp,      \* its vehicle inputs: in_vehicle_properties, or the inwards
    cp,      \* its country inputs: in_country_properties
    out      \* its outwards, with err = the exception the last compute() raised

vars == <<calc, vp, cp, out>>

\* bounds: compute() calls made on one instance, largest loan term
MaxCalls == 2
MaxLoanYears == 2

\* VehiclePropertiesPort.setup: the defaults the CAPEX calculator reads
VPDefault ==
    [type_energy |-> "DIESEL", purchase_cost |-> Zero,
     registration_country |-> "France",
     vehicle_number |-> 1, vehicle_id |-> 1, vehicle_weight_class |-> "light",
     year |-> 2025, is_new |-> TRUE, owns_vehicle |-> FALSE,
     conversion_cost |-> Zero, certification_cost |-> Zero,
     vehicle_dict |-> Fleets.empty,
     n_slow |-> None, n_fast |-> None, n_ultra |-> None, n_stations |-> Some(1),
     smart_charging_enabled |-> FALSE, loan_years |-> 10]

\* CountryPropertiesPort.setup: the defaults
CPDefault == [energy_price |-> Zero, c02_taxes |-> Zero, subsidies |-> Zero]

Energies == {"BEV", "DIESEL", "FCET"}
Countries == {"France", "Germany", "Atlantis"}
Acquisitions == {<<TRUE, FALSE>>, <<FALSE, TRUE>>, <<FALSE, FALSE>>}
\* <<n_slow, n_fast, n_ultra>> as the user gives them: none, one, or all three
ChargerPlans == {<<None, None, None>>, <<Some(1), None, None>>,
                 <<Some(1), Some(1), Some(1)>>}
FleetSizes == {0, 1, 2}

(***************************************************************************)
(* VehicleCAPEXCalculator: the caller sets the port, then runs compute().  *)
(* The acquisition mode and the fleet dictionary are set once, before the  *)
(* first call; the other inputs change between calls.                      *)
(***************************************************************************)
SetCapexInputs ==
    /\ calc = "VehicleCAPEXCalculator"
    /\ out.calls < MaxCalls
    /\ \E e \in Energies, c \in Countries, N \in FleetSizes, n \in {0, MaxLoanYears} :
          vp' = [vp EXCEPT !.type_energy = e, !.registration_country = c,
                           !.vehicle_number = N, !.loan_years = n]
    /\ UNCHANGED <<calc, cp, out>>

\* run_drivers() -> compute()
CapexCompute ==
    /\ calc = "VehicleCAPEXCalculator"
    /\ out.calls < MaxCalls
    /\ vp.loan_years <= MaxLoanYears
    /\ out' = capex_compute(out, vp)
    /\ UNCHANGED <<calc, vp, cp>>

InitCapex ==
    /\ calc = "VehicleCAPEXCalculator"
    /\ \E acq \in Acquisitions, f \in {"empty", "two"}, n \in ChargerPlans :
          vp = [VPDefault EXCEPT !.is_new = acq[1], !.owns_vehicle = acq[2],
                                 !.purchase_cost = Q(800), !.conversion_cost = Q(90),
                                 !.certification_cost = Q(10),
                                 !.vehicle_dict = Fleets[f],
                                 !.n_slow = n[1], !.n_fast = n[2], !.n_ultra = n[3]]
    /\ cp = CPDefault
    /\ out = CapexOutInit

(***************************************************************************)
(* CAPEXSystem: the caller sets the inwards, then runs the system.         *)
(***************************************************************************)
SystemDefault ==
    [powertrain_type |-> "bet", vehicle_number |-> 1, id |-> 1,
     vehicle_weight_class |-> "heavy", country |-> "EU", year |-> 2025,
     n_slow |-> None, n_fast |-> None, n_ultra |-> None,
     is_new |-> TRUE, owns_vehicle |-> FALSE, purchase_price |-> Zero,
     conversion_cost |-> Zero, certification_cost |-> Zero,
     E_total_private |-> Zero, n_stations |-> None,
     smart_charging_enabled |-> FALSE, vehicle_dict |-> Fleets.empty]

SetSystemInputs ==
    /\ calc = "CAPEXSystem"
    /\ out.calls < MaxCalls
    /\ \E pt \in {"bet", "diesel", "fcet"}, id \in {1, 3}, st \in {None, Some(1)},
          E \in {Zero, Q(5)}, N \in FleetSizes :
          vp' = [vp EXCEPT !.powertrain_type = pt, !.id = id, !.n_stations = st,
                           !.E_total_private = E, !.vehicle_number = N]
    /\ UNCHANGED <<calc, cp, out>>

SystemCompute ==
    /\ calc = "CAPEXSystem"
    /\ out.calls < MaxCalls
    /\ \E settable \in BOOLEAN : out' = CAPEXSystem_compute(out, vp, settable)
    /\ UNCHANGED <<calc, vp, cp>>

InitSystem ==
    /\ calc = "CAPEXSystem"
    /\ \E acq \in Acquisitions, c \in {"France", "Atlantis"}, n \in ChargerPlans :
          vp = [SystemDefault EXCEPT !.is_new = acq[1], !.owns_vehicle = acq[2],
                                     !.purchase_price = Q(800),
                                     !.conversion_cost = Q(90),
                                     !.certification_cost = Q(10),
                                     !.country = c,
                                     !.n_slow = n[1], !.n_fast = n[2],
                                     !.n_ultra = n[3],
                                     !.vehicle_dict = SystemFleet]
    /\ cp = CPDefault
    /\ out = SystemOutInit

NextCapex == SetCapexInputs \/ CapexCompute \/ SetSystemInputs \/ SystemCompute
InitCapexAll == InitCapex \/ InitSystem
SpecCapex == InitCapexAll /\ [][NextCapex]_vars


(***************************************************************************)
(* The two TruckOPEXCalculator variants: the caller sets the inwards, then *)
(* runs compute().                                                         *)
(***************************************************************************)
TruckDefault ==
    [purchase_cost |-> Q(1000), type_energy |-> "diesel", size_vehicle |-> "N3",
     registration_country |-> "France", annual_distance_travel |-> Q(80),
     RV |-> Q(200), N_years |-> One, team_count |-> 1, maintenance_cost |-> Q(50),
     consumption_energy |-> Q(20), fuel_multiplier |-> One, EF_CO2 |-> R(1, 2)]

TruckCalcs == {"TruckOPEXCalculator", "TruckOPEXCalculator (tco-eco4impact)"}
TruckEnergies == {"diesel", "electric", "hydrogen", ""}
\* the residual value below, equal to and above the purchase cost
TruckResiduals == {Q(200), Q(1000), Q(1200)}

SetTruckInputs ==
    /\ calc \in TruckCalcs
    /\ out.calls < MaxCalls
    /\ \E e \in TruckEnergies, c \in Countries, k \in {"N3", "n3", "N1"},
          m \in {Zero, Q(50)} :
          vp' = [vp EXCEPT !.type_energy = e, !.registration_country = c,
                           !.size_vehicle = k, !.maintenance_cost = m]
    /\ UNCHANGED <<calc, cp, out>>

TruckCompute ==
    /\ calc = "TruckOPEXCalculator"
    /\ out.calls < MaxCalls
    /\ out' = truck_compute(out, vp)
    /\ UNCHANGED <<calc, vp, cp>>

TruckDocCompute ==
    /\ calc = "TruckOPEXCalculator (tco-eco4impact)"
    /\ out.calls < MaxCalls
    /\ out' = doc_compute(out, vp)
    /\ UNCHANGED <<calc, vp, cp>>

InitTruck ==
    /\ calc \in TruckCalcs
    /\ \E rv \in TruckResiduals :
          vp = IF calc = "TruckOPEXCalculator" THEN [TruckDefault EXCEPT !.RV = rv]
               ELSE [TruckDefault EXCEPT !.type_energy = "DIESEL", !.RV = rv]
    /\ cp = CPDefault
    /\ out = TruckOutInit

NextTruck == SetTruckInputs \/ TruckCompute \/ TruckDocCompute
SpecTruck == InitTruck /\ [][NextTruck]_vars

(***************************************************************************)
(* ShipOPEXCalculator: the caller sets the inwards, then runs compute().   *)
(* The monthly crew cost is set once, before the first call.               *)
(***************************************************************************)
ShipDefault ==
    [country_reg |-> "France", country_oper |-> "France",
     ship_class |-> "ro_pax_large", energy_type |-> "DIESEL",
     purchase_cost |-> Q(1000), GT |-> Zero, planning_horizon_years |-> One,
     crew_monthly_total |-> Zero,
     crew_list |-> << [rank |-> "seafarer", attribute |-> "ro_pax_large",
                       team_size |-> 10] >>,
     annual_energy_consumption_kWh |-> Q(50), fuel_mass_kg |-> Zero]

ShipRoutes == {<<"France", "France">>, <<"France", "Germany">>,
               <<"Germany", "France">>, <<"Atlantis", "France">>,
               <<"France", "Atlantis">>}

SetShipInputs ==
    /\ calc = "ShipOPEXCalculator"
    /\ out.calls < MaxCalls
    /\ \E r \in ShipRoutes, k \in {"ro_pax_large", "large", "tug"},
          e \in {"DIESEL", "LNG", "HFO"} :
          vp' = [vp EXCEPT !.country_reg = r[1], !.country_oper = r[2],
                           !.ship_class = k, !.energy_type = e]
    /\ UNCHANGED <<calc, cp, out>>

ShipCompute ==
    /\ calc = "ShipOPEXCalculator"
    /\ out.calls < MaxCalls
    /\ out' = ship_compute(out, vp)
    /\ UNCHANGED <<calc, vp, cp>>

InitShip ==
    /\ calc = "ShipOPEXCalculator"
    /\ \E m \in {Zero, Q(10)} :
          vp = [ShipDefault EXCEPT !.crew_monthly_total = m, !.GT = Q(10),
                                   !.fuel_mass_kg = Q(2000)]
    /\ cp = CPDefault
    /\ out = ShipOutInit

NextShip == SetShipInputs \/ ShipCompute
SpecShip == InitShip /\ [][NextShip]_vars

(***************************************************************************)
(* ResidualValueCalculator: the caller sets the ports, then runs compute(). *)
(* The consumption, battery, charging and warranty data are set once,      *)
(* before the first call; energy type, country and fleet size change       *)
(* between calls.                                                          *)
(***************************************************************************)
RVDefault ==
    [type_energy |-> "DIESEL", purchase_cost |-> Zero,
     registration_country |-> "France", travel_measure |-> Zero,
     maintenance_cost |-> Zero, minimum_fuel_consumption |-> Q(250),
     consumption_real |-> Zero, C_bat_kwh |-> One, autonomy |-> One,
     utility_factor |-> Zero, E_annual_kwh |-> Zero, DoD |-> R(8, 10),
     S_slow |-> Zero, S_fast |-> Zero, S_ultra |-> Zero,
     powertrain_model_year |-> 2020, warranty |-> Q(5), type_warranty |-> "years",
     year_purchase |-> 2020, current_year |-> 2026, vehicle_number |-> 1]

RVEnergies == {"DIESEL", "BEV", "electric", "HEV"}

\* <<type_warranty, current_year, travel_measure>>
RVWarranties == {<<"year", 2020, Zero>>, <<"year", 2030, Zero>>,
                 <<"km", 2022, Q(10)>>, <<"km", 2025, Q(5)>>,
                 <<"years", 2020, Zero>>}

\* <<consumption_real, C_bat_kwh, autonomy, utility_factor>>
RVBatteries == {<<Zero, Q(4), Q(2), Zero>>, <<Zero, Q(4), Zero, Zero>>,
                <<Q(4), Q(4), Q(2), R(1, 2)>>}

SetRVInputs ==
    /\ calc = "ResidualValueCalculator"
    /\ out.calls < MaxCalls
    /\ \E e \in RVEnergies, c \in Countries, N \in {0, 1} :
          vp' = [vp EXCEPT !.type_energy = e, !.registration_country = c,
                           !.vehicle_number = N]
    /\ UNCHANGED <<calc, cp, out>>

RVCompute ==
    /\ calc = "ResidualValueCalculator"
    /\ out.calls < MaxCalls
    /\ out' = rv_compute(out, vp, cp)
    /\ UNCHANGED <<calc, vp, cp>>

InitRV ==
    /\ calc = "ResidualValueCalculator"
    /\ \E w \in RVWarranties, b \in RVBatteries, E \in {Zero, Q(8)} :
          vp = [RVDefault EXCEPT
                   !.purchase_cost = Q(1000), !.maintenance_cost = Q(20),
                   !.minimum_fuel_consumption = Q(90),
                   !.type_warranty = w[1], !.current_year = w[2],
                   !.travel_measure = w[3],
                   !.consumption_real = b[1], !.C_bat_kwh = b[2],
                   !.autonomy = b[3], !.utility_factor = b[4],
                   !.E_annual_kwh = E, !.S_slow = R(1, 2), !.S_fast = R(1, 2)]
    /\ cp = [energy_price |-> Q(2), c02_taxes |-> One, subsidies |-> Q(3)]
    /\ out = RVOutInit

\* the defaults of the inwards of TechSystem, WarrantySystem, ChargingSystem
HealthDefault ==
    [type_energy |-> "Diesel_fosile", minimum_fuel_consumption |-> Q(200),
     consumption_real |-> Zero, utility_factor |-> R(1, 2),
     consumption_benchmark |-> Zero, heating_value |-> R(426, 10),
     n_EV |-> R(85, 100), n_ICE |-> R(40, 100),
     warranty |-> Q(2), type_warranty |-> "years", year_purchase |-> 2020,
     current_year |-> 2024,
     E_annual_kwh |-> Q(50000), C_bat_kwh |-> Q(300), DoD |-> R(8, 10),
     S_slow |-> R(6, 10), S_fast |-> R(3, 10), S_ultra |-> R(1, 10),
     d_slow |-> One, d_fast |-> R(3, 2), d_ultra |-> R(5, 2), k_d |-> R(1, 1000)]

HealthSystems == {"TechSystem", "WarrantySystem", "ChargingSystem"}
HealthEnergies == {"Diesel_fosile", "BET", "FCET", "HEV", "GNV"}

SetHealthInputs ==
    /\ calc \in HealthSystems
    /\ out.calls < MaxCalls
    /\ \E e \in HealthEnergies, cr \in {Zero, Q(2)}, y \in {2020, 2021, 2024},
          E \in {Zero, Q(480)} :
          vp' = [vp EXCEPT !.type_energy = e, !.consumption_real = cr,
                           !.current_year = y, !.E_annual_kwh = E]
    /\ UNCHANGED <<calc, cp, out>>

TechCompute ==
    /\ calc = "TechSystem"
    /\ out.calls < MaxCalls
    /\ out' = TechSystem_compute(out, vp)
    /\ UNCHANGED <<calc, vp, cp>>

WarrantyCompute ==
    /\ calc = "WarrantySystem"
    /\ out.calls < MaxCalls
    /\ out' = WarrantySystem_compute(out, vp)
    /\ UNCHANGED <<calc, vp, cp>>

ChargingCompute ==
    /\ calc = "ChargingSystem"
    /\ out.calls < MaxCalls
    /\ out' = ChargingSystem_compute(out, vp)
    /\ UNCHANGED <<calc, vp, cp>>

InitHealth ==
    /\ calc \in HealthSystems
    /\ \E tw \in {"years", "km"}, b \in {Zero, One} :
          vp = [HealthDefault EXCEPT !.type_warranty = tw,
                                     !.consumption_benchmark = b]
    /\ cp = CPDefault
    /\ out = HealthOutInit

\* the defaults of the inwards of the tree of ResidualValueSystem
RVSystemDefault ==
    [type_vehicle |-> "Truck", type_energy |-> "Diesel_fosile", taxes |-> Q(5000),
     depreciation_module |->
        [purchase_cost |-> Q(100000), age_vehicle |-> Q(5),
         travel_measure |-> Q(200000), maintenance_cost |-> Q(15000),
         type_vehicle |-> "Truck", type_energy |-> "Diesel_fosile",
         depreciation_rate_per_year |-> Q(5000),
         depreciation_rate_by_usage |-> R(5, 100),
         coef_depreciation_maintenance |-> R(10, 100)],
     health_module |->
        [type_vehicle |-> "Truck", type_energy |-> "Diesel_fosile",
         tech |->
            [type_vehicle |-> "Truck", type_energy |-> "Diesel_fosile",
             minimum_fuel_consumption |-> Q(200), consumption_real |-> Zero,
             utility_factor |-> R(1, 2), consumption_benchmark |-> Zero,
             heating_value |-> R(426, 10), n_EV |-> R(85, 100), n_ICE |-> R(40, 100)],
         quality |->
            [type_vehicle |-> "Truck", type_energy |-> "Diesel_fosile",
             LHV |-> R(426, 10), density |-> Q(835), LHV_ref |-> Q(43),
             density_ref |-> Q(840)],
         obsolescence |->
            [powertrain_model_year |-> 2020, type_vehicle |-> "Truck",
             type_energy |-> "Diesel_fosile", distance_travel |-> Q(100000),
             current_year |-> 2024, lambda_y |-> R(5, 100), lambda_d |-> R(1, 100000),
             inicial_distance |-> Zero],
         warranty |->
            [warranty |-> Q(2), type_warranty |-> "years", year_purchase |-> 2020,
             current_year |-> 2024],
         charging |->
            [type_vehicle |-> "Truck", type_energy |-> "Diesel_fosile",
             E_annual_kwh |-> Q(50000), C_bat_kwh |-> Q(300), DoD |-> R(8, 10),
             S_slow |-> R(6, 10), S_fast |-> R(3, 10), S_ultra |-> R(1, 10),
             d_slow |-> One, d_fast |-> R(3, 2), d_ultra |-> R(5, 2),
             k_d |-> R(1, 1000)]]]

\* the caller sets the energy and vehicle type of the root and the real
\* consumption of the tech sub-module
SetRVSystemInputs ==
    /\ calc = "ResidualValueSystem"
    /\ out.calls < MaxCalls
    /\ \E e \in HealthEnergies, t \in {"Truck", "Ship"}, cr \in {Zero, Q(2)} :
          vp' = [vp EXCEPT !.type_energy = e, !.type_vehicle = t,
                           !.health_module.tech.consumption_real = cr]
    /\ UNCHANGED <<calc, cp, out>>

\* run_drivers() on the root system
RVSystemRun ==
    /\ calc = "ResidualValueSystem"
    /\ out.calls < MaxCalls
    /\ vp' = ResidualValueSystem_run(out, vp).v
    /\ out' = ResidualValueSystem_run(out, vp).o
    /\ UNCHANGED <<calc, cp>>

\* a new ResidualValueSystem whose caller has set the inputs of the
\* sub-modules, as the example of main.py does
InitRVSystem ==
    /\ calc = "ResidualValueSystem"
    /\ \E w \in {Q(2), Q(8)}, k \in {Zero, R(1, 2)} :
          vp = [RVSystemDefault EXCEPT
                   !.taxes = Q(5),
                   !.depreciation_module.purchase_cost = Q(1000),
                   !.depreciation_module.age_vehicle = Q(2),
                   !.depreciation_module.travel_measure = Q(200),
                   !.depreciation_module.maintenance_cost = Q(20),
                   !.depreciation_module.depreciation_rate_per_year = Q(50),
                   !.depreciation_module.depreciation_rate_by_usage = R(1, 2),
                   !.depreciation_module.coef_depreciation_maintenance = One,
                   !.health_module.tech.minimum_fuel_consumption = Q(90),
                   !.health_module.tech.heating_value = Q(50),
                   !.health_module.tech.consumption_benchmark = One,
                   !.health_module.quality.LHV = Q(40),
                   !.health_module.quality.density = Q(800),
                   !.health_module.quality.LHV_ref = Q(40),
                   !.health_module.quality.density_ref = Q(1000),
                   !.health_module.obsolescence.lambda_y = R(1, 4),
                   !.health_module.obsolescence.distance_travel = Q(100),
                   !.health_module.obsolescence.lambda_d = R(1, 100),
                   !.health_module.warranty.warranty = w,
                   !.health_module.charging.E_annual_kwh = Q(480),
                   !.health_module.charging.S_slow = One,
                   !.health_module.charging.S_fast = Zero,
                   !.health_module.charging.S_ultra = Zero,
                   !.health_module.charging.k_d = k]
    /\ cp = CPDefault
    /\ out = RVSystemOutInit

NextRV ==
    \/ SetRVInputs \/ RVCompute
    \/ SetHealthInputs \/ TechCompute \/ WarrantyCompute \/ ChargingCompute
    \/ SetRVSystemInputs \/ RVSystemRun
InitRVAll == InitRV \/ InitHealth \/ InitRVSystem
SpecRV == InitRVAll /\ [][NextRV]_vars

(***************************************************************************)
(* The capital recovery factor of the two financing steps as a function of *)
(* the adjusted rate and the loan term: the caller sets both, then the     *)
(* step runs.  out keeps the factor and the rate and term it was computed  *)
(* from.                                                                   *)
(***************************************************************************)
MaxTerm == 4

FinRates == {Zero, R(1, 5), R(1, 4), R(1, 3), R(1, 2), One, R(3, 2), Q(2)}
FinCalcs == {"VehicleCAPEXCalculator.compute_c_financing_cost",
             "FinancingSystem.compute"}

\* c = <<ok, crf>> is the outcome of the step run on v
FinOut(o, v, c) ==
    IF c[1] THEN [rate |-> v.rate, loan_years |-> v.loan_years, crf |-> c[2],
                  err |-> NoErr, done |-> TRUE]
    ELSE [o EXCEPT !.err = "ZeroDivisionError", !.done = TRUE]

SetFinInputs ==
    /\ \E r \in FinRates, n \in 0..MaxTerm : vp' = [rate |-> r, loan_years |-> n]
    /\ UNCHANGED <<calc, cp, out>>

FinCompute ==
    /\ calc = "VehicleCAPEXCalculator.compute_c_financing_cost"
    /\ out' = FinOut(out, vp, CRF(vp.rate, vp.loan_years))
    /\ UNCHANGED <<calc, vp, cp>>

FinSystemCompute ==
    /\ calc = "FinancingSystem.compute"
    /\ out' = FinOut(out, vp, SystemCRF(vp.rate, vp.loan_years))
    /\ UNCHANGED <<calc, vp, cp>>

InitFin ==
    /\ calc \in FinCalcs
    /\ \E r \in FinRates, n \in 0..MaxTerm : vp = [rate |-> r, loan_years |-> n]
    /\ cp = CPDefault
    /\ out = [rate |-> Zero, loan_years |-> 0, crf |-> Zero, err |-> NoErr,
              done |-> FALSE]

NextFin == SetFinInputs \/ FinCompute \/ FinSystemCompute
SpecFin == InitFin /\ [][NextFin]_vars

(***************************************************************************)
(* main_tco.py: the scenario runner.  user_inputs is the scenario          *)
(* dictionary; a wrapper returns the record of what its calculator left,   *)
(* err being the exception that leaves the wrapper.                        *)
(***************************************************************************)
\* the ports that setup() adds to the two OPEX calculators main_tco.py imports
OpexPorts == [TruckOPEXCalculator |-> {"opex"}, ShipOPEXCalculator |-> {"opex_ship"}]

\* run_capex, and the recalculation in run_tco_scenario: a fresh
\* VehicleCAPEXCalculator run once on the "capex" entry of the scenario
run_capex(user_inputs) ==
    LET capex_data == Get(user_inputs, "capex", NoDict)
    IN  capex_compute(CapexOutInit,
            [type_energy |-> Get(capex_data, "powertrain_type", "DIESEL"),
             vehicle_number |-> Get(capex_data, "vehicle_number", 1),
             vehicle_id |-> Get(capex_data, "vehicle_id", 1),
             vehicle_weight_class |-> Get(capex_data, "vehicle_weight_class", "light"),
             registration_country |-> Get(capex_data, "country", "France"),
             year |-> Get(capex_data, "year", 2025),
             is_new |-> Get(capex_data, "is_new", TRUE),
             owns_vehicle |-> Get(capex_data, "owns_vehicle", FALSE),
             purchase_cost |-> Get(capex_data, "purchase_price", Zero),
             conversion_cost |-> Get(capex_data, "conversion_cost", Zero),
             certification_cost |-> Get(capex_data, "certification_cost", Zero),
             vehicle_dict |-> Get(capex_data, "vehicle_dict", Fleets.empty),
             n_slow |-> Get(capex_data, "n_slow", None),
             n_fast |-> Get(capex_data, "n_fast", None),
             n_ultra |-> Get(capex_data, "n_ultra", None),
             n_stations |-> Get(capex_data, "n_stations", Some(0)),
             smart_charging_enabled |-> Get(capex_data, "smart_charging_enabled", FALSE),
             loan_years |-> Get(capex_data, "loan_years", 10)])

\* run_opex_truck: the setattr loop copies the keys that are inwards of the
\* calculator, then sys_opex.in_vehicle_properties is looked up
run_opex_truck(opex_inputs) ==
    IF "in_vehicle_properties" \notin OpexPorts.TruckOPEXCalculator
    THEN [TruckOutInit EXCEPT !.err = "AttributeError"]
    ELSE truck_compute(TruckOutInit,
            [k \in DOMAIN TruckDefault |->
                IF k = "purchase_cost" THEN opex_inputs.purchase_price
                ELSE Get(opex_inputs, k, TruckDefault[k])])

\* run_opex_ship: sys_ship.in_vehicle_properties is looked up first
run_opex_ship(opex_inputs) ==
    IF "in_vehicle_properties" \notin OpexPorts.ShipOPEXCalculator
    THEN [ShipOutInit EXCEPT !.err = "AttributeError"]
    ELSE ship_compute(ShipOutInit,
            [ShipDefault EXCEPT
                !.purchase_cost = Get(opex_inputs, "purchase_price", Zero),
                !.GT = Get(opex_inputs, "GT", Zero),
                !.annual_energy_consumption_kWh =
                    Get(opex_inputs, "consumption_energy", Zero),
                !.fuel_mass_kg = Get(opex_inputs, "fuel_mass_kg", Zero)])

\* run_rv: the calculator prints its own exceptions, so rv_sys.rv is returned
run_rv(rv_inputs) ==
    rv_compute(RVOutInit,
        [RVDefault EXCEPT
            !.type_energy = rv_inputs.type_energy,
            !.registration_country = rv_inputs.registration_country,
            !.purchase_cost = rv_inputs.purchase_cost,
            !.year_purchase = rv_inputs.year_purchase,
            !.current_year = rv_inputs.current_year,
            !.travel_measure = rv_inputs.travel_measure,
            !.maintenance_cost = rv_inputs.maintenance_cost,
            !.minimum_fuel_consumption = rv_inputs.minimum_fuel_consumption,
            !.powertrain_model_year = rv_inputs.powertrain_model_year,
            !.warranty = rv_inputs.warranty,
            !.type_warranty = rv_inputs.type_warranty],
        [energy_price |-> rv_inputs.energy_price, c02_taxes |-> rv_inputs.co2_taxes,
         subsidies |-> rv_inputs.subsidies]).rv

\* what run_tco_scenario has returned: nothing yet
ScenarioOutInit ==
    [err |-> NoErr, calls |-> 0, ran |-> <<>>,
     capex_total |-> Zero, capex_component |-> Zero, opex_annual |-> Zero,
     opex_component_pv |-> Zero, rv |-> Zero, rv_discounted |-> Zero,
     tco_total |-> Zero, equivalent_annual_cost |-> Zero, crf |-> One]

RECURSIVE opex_component(_, _, _)
\* the loop over range(1, N + 1): the present value of the OPEX of years 1..n
opex_component(opex_annual, interest_rate, n) ==
    IF n = 0 THEN Zero
    ELSE QAdd(opex_component(opex_annual, interest_rate, n - 1),
              QDiv(opex_annual, QPow(QAdd(One, interest_rate), n)))

\* steps 4 and 5 of run_tco_scenario, capex being the outwards of
\* sys_capex_temp: the result returned, or the exception raised
tco_result(o, capex, opex_annual, rv_value, interest_rate, N) ==
    IF Raised(capex) THEN [o EXCEPT !.err = capex.err]
    ELSE IF N = 0 \/ QIsZero(QAdd(One, interest_rate))
    THEN [o EXCEPT !.err = "ZeroDivisionError"]
    ELSE LET rv_discounted == QDiv(rv_value, QPow(QAdd(One, interest_rate), N))
             capex_component == QMul(QSub(capex.c_capex_total, rv_discounted),
                                     capex.c_crf)
             pv == opex_component(opex_annual, interest_rate, N)
         IN  [o EXCEPT !.capex_total = capex.c_capex_total,
                       !.capex_component = capex_component,
                       !.opex_annual = opex_annual,
                       !.opex_component_pv = pv,
                       !.rv = rv_value,
                       !.rv_discounted = rv_discounted,
                       !.tco_total = QAdd(capex_component, pv),
                       !.equivalent_annual_cost =
                            QDiv(QAdd(capex_component, pv), Q(N)),
                       !.crf = capex.c_crf]

\* run_tco_scenario: ran lists the calculators that have run to completion
run_tco_scenario(o, user_inputs) ==
    LET b == [ScenarioOutInit EXCEPT !.calls = o.calls + 1]
        asset_type == user_inputs.asset_type
        opex == IF asset_type = "truck" THEN run_opex_truck(user_inputs.opex_truck)
                ELSE run_opex_ship(user_inputs.opex_ship)
    IN  IF Raised(run_capex(user_inputs))
        THEN [b EXCEPT !.err = run_capex(user_inputs).err]
        ELSE IF asset_type \notin {"truck", "ship"}
        THEN [b EXCEPT !.err = "ValueError: asset_type", !.ran = <<"capex">>]
        ELSE IF Raised(opex)
        THEN [b EXCEPT !.err = opex.err, !.ran = <<"capex">>]
        ELSE tco_result([b EXCEPT !.ran = <<"capex", "opex", "rv", "capex">>],
                        run_capex(user_inputs), opex.o_opex_total,
                        run_rv(user_inputs.rv), user_inputs.discount_rate,
                        user_inputs.operation_years)

(***************************************************************************)
(* run_tco_scenario: the caller builds a scenario, then runs it.           *)
(***************************************************************************)
\* bound: the longest operating horizon of a scenario
MaxHorizon == 2

\* make_example_truck_diesel, with small numbers
ScenarioDefault ==
    [asset_type |-> "truck", operation_years |-> 1, discount_rate |-> R(1, 4),
     capex |-> [powertrain_type |-> "DIESEL", vehicle_number |-> 1, vehicle_id |-> 1,
                vehicle_weight_class |-> "light", country |-> "France",
                year |-> 2025, is_new |-> TRUE, owns_vehicle |-> FALSE,
                purchase_price |-> Q(800), conversion_cost |-> Zero,
                certification_cost |-> Zero, n_slow |-> None, n_fast |-> None,
                n_ultra |-> None, n_stations |-> Some(1),
                smart_charging_enabled |-> FALSE, loan_years |-> MaxLoanYears,
                vehicle_dict |-> Fleets.two],
     opex_truck |-> [purchase_price |-> Q(800), type_energy |-> "diesel",
                     size_vehicle |-> "N3", registration_country |-> "France",
                     annual_distance_travel |-> Q(80), RV |-> Q(200),
                     N_years |-> One, team_count |-> 1, maintenance_cost |-> Zero,
                     consumption_energy |-> Zero, fuel_multiplier |-> One],
     opex_ship |-> [purchase_price |-> Q(800), GT |-> Q(10),
                    consumption_energy |-> Q(50), fuel_mass_kg |-> Zero,
                    size_vehicle |-> "large", registration_country |-> "France",
                    type_energy |-> "DIESEL", crew_count |-> 2],
     rv |-> [type_vehicle |-> "truck", type_energy |-> "DIESEL",
             registration_country |-> "France", purchase_cost |-> Q(800),
             year_purchase |-> 2020, current_year |-> 2022,
             travel_measure |-> Q(10), maintenance_cost |-> Q(20),
             minimum_fuel_consumption |-> Q(90), powertrain_model_year |-> 2020,
             warranty |-> Q(5), type_warranty |-> "year", energy_price |-> One,
             co2_taxes |-> Zero, subsidies |-> Zero, vehicle_number |-> 1]]

SetScenario ==
    /\ calc = "run_tco_scenario"
    /\ out.calls < MaxCalls
    /\ \E a \in {"truck", "ship", "plane"}, e \in Energies, c \in Countries,
          N \in 0..MaxHorizon, r \in {Zero, R(1, 4)} :
          vp' = [vp EXCEPT !.asset_type = a, !.capex.powertrain_type = e,
                           !.capex.country = c, !.operation_years = N,
                           !.discount_rate = r]
    /\ UNCHANGED <<calc, cp, out>>

RunScenario ==
    /\ calc = "run_tco_scenario"
    /\ out.calls < MaxCalls
    /\ out' = run_tco_scenario(out, vp)
    /\ UNCHANGED <<calc, vp, cp>>

InitScenario ==
    /\ calc = "run_tco_scenario"
    /\ \E N \in FleetSizes : vp = [ScenarioDefault EXCEPT !.capex.vehicle_number = N]
    /\ cp = CPDefault
    /\ out = ScenarioOutInit

(***************************************************************************)
(* The calculators side by side: one of them is constructed, then driven.  *)
(***************************************************************************)
InitTCO == InitCapexAll \/ InitTruck \/ InitShip \/ InitRVAll \/ InitScenario
NextTCO ==
    \/ NextCapex \/ NextTruck \/ NextShip \/ NextRV
    \/ SetScenario \/ RunScenario
SpecTCO == InitTCO /\ [][NextTCO]_vars

(***************************************************************************)
(* run_ship_scenario and run_truck_scenario (functions/Opex_Calculator.py): *)
(* the scenario of that name in inputs_opex.json is loaded onto a new       *)
(* calculator, the calculator runs, and its fields are written to a JSON    *)
(* file.  A JSON or attribute value is a record [t, v] of its Python type   *)
(* and its value; a scenario is the sequence of its <<key, value>> items.   *)
(***************************************************************************)
JInt(n) == [t |-> "int", v |-> n]
JFloat(q) == [t |-> "float", v |-> q]
JStr(s) == [t |-> "str", v |-> s]
JList(l) == [t |-> "list", v |-> l]

\* the Python value without its type, as the compute methods read it
Value(j) ==
    IF j.t = "list"
    THEN [i \in DOMAIN j.v |-> [k \in DOMAIN j.v[i] |-> j.v[i][k].v]]
    ELSE j.v

\* the attributes of a new ShipOPEXCalculator: the inwards, then the outwards
ShipSetup ==
    [country_reg |-> JStr("France"), country_oper |-> JStr("France"),
     ship_class |-> JStr("ro_pax_large"), energy_type |-> JStr("DIESEL"),
     purchase_cost |-> JFloat(Q(1000)), GT |-> JFloat(Zero),
     planning_horizon_years |-> JFloat(One), crew_monthly_total |-> JFloat(Zero),
     crew_list |-> JList(<< [rank |-> JStr("seafarer"),
                             attribute |-> JStr("ro_pax_large"),
                             team_size |-> JInt(10)] >>),
     annual_energy_consumption_kWh |-> JFloat(Q(50)), fuel_mass_kg |-> JFloat(Zero),
     o_taxes |-> JFloat(Zero), o_ports |-> JFloat(Zero), o_insurance |-> JFloat(Zero),
     o_crew |-> JFloat(Zero), o_maintenance |-> JFloat(Zero),
     o_energy |-> JFloat(Zero), o_opex_total |-> JFloat(Zero)]

\* the attributes of a new TruckOPEXCalculator
TruckSetup ==
    [purchase_cost |-> JFloat(Q(1000)), type_energy |-> JStr("diesel"),
     size_vehicle |-> JStr("N3"), registration_country |-> JStr("France"),
     annual_distance_travel |-> JFloat(Q(80)), RV |-> JFloat(Q(200)),
     N_years |-> JFloat(One), team_count |-> JInt(1),
     maintenance_cost |-> JFloat(Q(50)), consumption_energy |-> JFloat(Q(20)),
     fuel_multiplier |-> JFloat(One), EF_CO2 |-> JFloat(R(1, 2)),
     o_taxes |-> JFloat(Zero), o_tolls |-> JFloat(Zero), o_insurance |-> JFloat(Zero),
     o_crew |-> JFloat(Zero), o_energy |-> JFloat(Zero),
     o_opex_total |-> JFloat(Zero)]

\* int(q): the integer part, towards zero
Trunc(q) == IF q[1] >= 0 THEN q[1] \div q[2] ELSE -((-q[1]) \div q[2])

RECURSIVE Digits(_, _)
\* the decimal digits of r / d, 0 <= r < d
Digits(r, d) ==
    IF r = 0 THEN <<>> ELSE <<(r * 10) \div d>> \o Digits((r * 10) % d, d)

\* the repr without the fraction part of a whole number: 3.0 as 3
float_repr_short(q) ==
    [neg |-> q[1] < 0, int |-> Abs(q[1]) \div q[2],
     frac |-> Digits(Abs(q[1]) % q[2], q[2])]

\* float.__repr__: the sign, the integer part, and the digits after the point,
\* of which there is at least one
float_repr(q) ==
    [neg |-> q[1] < 0, int |-> Abs(q[1]) \div q[2],
     frac |-> IF Abs(q[1]) % q[2] = 0 THEN <<0>> ELSE Digits(Abs(q[1]) % q[2], q[2])]

RECURSIVE DigitText(_, _)
\* the digits from index i on as text
DigitText(ds, i) ==
    IF i > Len(ds) THEN "" ELSE ToString(ds[i]) \o DigitText(ds, i + 1)

\* str(value)
str(value) ==
    CASE value.t = "str" -> value.v
      [] value.t = "int" -> ToString(value.v)
      [] value.t = "float" ->
            (IF float_repr(value.v).neg THEN "-" ELSE "")
            \o ToString(float_repr(value.v).int) \o "."
            \o DigitText(float_repr(value.v).frac, 1)
      [] OTHER -> "[...]"

\* the try block of the loading loop: type(current)(value) for two numbers,
\* str(value) for a string attribute, else the value as it is
coerce(current, value) ==
    IF current.t \in {"float", "int"} /\ value.t \in {"int", "float"}
    THEN IF current.t = "float"
         THEN JFloat(IF value.t = "int" THEN Q(value.v) ELSE value.v)
         ELSE JInt(IF value.t = "int" THEN value.v ELSE Trunc(value.v))
    ELSE IF current.t = "str" THEN JStr(str(value))
    ELSE value

RECURSIVE load_scenario(_, _, _)
\* the loop over scenario.items() from item i on; setattr raises TypeError
\* for a value that is not of the type of the variable
load_scenario(sys, items, i) ==
    IF i > Len(items) THEN [err |-> NoErr, sys |-> sys]
    ELSE IF items[i][1] \in {"name", "description"}
    THEN load_scenario(sys, items, i + 1)
    ELSE IF items[i][1] \notin DOMAIN sys THEN load_scenario(sys, items, i + 1)
    ELSE IF coerce(sys[items[i][1]], items[i][2]).t # sys[items[i][1]].t
    THEN [err |-> "TypeError: setattr", sys |-> sys]
    ELSE load_scenario(
            [sys EXCEPT ![items[i][1]] = coerce(sys[items[i][1]], items[i][2])],
            items, i + 1)

\* sc.get("name") of a scenario
scenario_name_of(items) ==
    IF \E i \in DOMAIN items : items[i][1] = "name"
    THEN items[CHOOSE i \in DOMAIN items : items[i][1] = "name"][2]
    ELSE JStr("None")

RECURSIVE find_scenario(_, _, _)
\* the loop over the scenarios from index i on: the first of that name, else 0
find_scenario(scenarios, i, scenario_name) ==
    IF i > Len(scenarios) THEN 0
    ELSE IF scenario_name_of(scenarios[i]) = JStr(scenario_name) THEN i
    ELSE find_scenario(scenarios, i + 1, scenario_name)

\* json.dump of one value
json_dump(j) ==
    CASE j.t = "int" -> [kind |-> "number", neg |-> j.v < 0, int |-> Abs(j.v),
                         frac |-> <<>>]
      [] j.t = "float" -> [kind |-> "number", neg |-> float_repr(j.v).neg,
                           int |-> float_repr(j.v).int, frac |-> float_repr(j.v).frac]
      [] j.t = "str" -> [kind |-> "string", chars |-> j.v]
      [] j.t = "list" ->
            [kind |-> "array",
             items |-> [i \in DOMAIN j.v |->
                          [k \in DOMAIN j.v[i] |->
                             IF j.v[i][k].t = "int"
                             THEN [kind |-> "number", neg |-> j.v[i][k].v < 0,
                                   int |-> Abs(j.v[i][k].v), frac |-> <<>>]
                             ELSE [kind |-> "string", chars |-> j.v[i][k].v]]]]

RECURSIVE Decimal(_, _)
\* the number with the decimal digits ds[1..n]
Decimal(ds, n) == IF n = 0 THEN 0 ELSE 10 * Decimal(ds, n - 1) + ds[n]

\* 10 to the power n
Pow10(n) == QPow(Q(10), n)[1]

\* json.load of a number: an int without a fraction part, else a float
json_number(x) ==
    IF x.frac = <<>> THEN JInt(IF x.neg THEN -x.int ELSE x.int)
    ELSE JFloat(R((IF x.neg THEN -1 ELSE 1)
                    * (x.int * Pow10(Len(x.frac)) + Decimal(x.frac, Len(x.frac))),
                  Pow10(Len(x.frac))))

\* json.load of one value
json_load(x) ==
    CASE x.kind = "number" -> json_number(x)
      [] x.kind = "string" -> JStr(x.chars)
      [] x.kind = "array" ->
            JList([i \in DOMAIN x.items |->
                     [k \in DOMAIN x.items[i] |->
                        IF x.items[i][k].kind = "number"
                        THEN json_number(x.items[i][k])
                        ELSE JStr(x.items[i][k].chars)]])

\* scenario_name.replace(" ", "_") for the names of the model
safe_name(scenario_name) ==
    IF scenario_name = "alt one" THEN "alt_one" ELSE scenario_name

\* save_results_to_json: data_out holds every field of the ship calculator
save_results_to_json(sys) == [k \in DOMAIN sys |-> json_dump(sys[k])]

\* data_out of run_truck_scenario: the fields without team_count
truck_data_out(sys) == [k \in DOMAIN sys \ {"team_count"} |-> json_dump(sys[k])]

\* the calculator after its run: the inwards as loaded, the outwards of o
after_run(sys, o) ==
    [k \in DOMAIN sys |-> IF k \in DOMAIN o THEN JFloat(o[k]) ELSE sys[k]]

\* run_ship_scenario once the scenario is loaded
ship_run_loaded(q, scenario_name, loaded, o) ==
    IF loaded.err # NoErr THEN [q EXCEPT !.err = loaded.err]
    ELSE IF o.err # NoErr THEN [q EXCEPT !.err = o.err]
    ELSE [q EXCEPT !.sys = after_run(loaded.sys, o),
                   !.files[safe_name(scenario_name)] =
                       save_results_to_json(after_run(loaded.sys, o))]

run_ship_scenario(q, scenarios, scenario_name) ==
    IF find_scenario(scenarios, 1, scenario_name) = 0
    THEN [Begin(q) EXCEPT !.err = "ValueError: scenario", !.sys = <<>>]
    ELSE ship_run_loaded([Begin(q) EXCEPT !.sys = <<>>], scenario_name,
            load_scenario(ShipSetup,
                scenarios[find_scenario(scenarios, 1, scenario_name)], 1),
            ship_compute(ShipOutInit,
                [k \in DOMAIN ShipDefault |->
                    Value(load_scenario(ShipSetup,
                        scenarios[find_scenario(scenarios, 1, scenario_name)],
                        1).sys[k])]))

\* run_truck_scenario once the scenario is loaded
truck_run_loaded(q, scenario_name, loaded, o) ==
    IF loaded.err # NoErr THEN [q EXCEPT !.err = loaded.err]
    ELSE IF o.err # NoErr THEN [q EXCEPT !.err = o.err]
    ELSE [q EXCEPT !.sys = after_run(loaded.sys, o),
                   !.files[safe_name(scenario_name)] =
                       truck_data_out(after_run(loaded.sys, o))]

run_truck_scenario(q, scenarios, scenario_name) ==
    IF find_scenario(scenarios, 1, scenario_name) = 0
    THEN [Begin(q) EXCEPT !.err = "ValueError: scenario", !.sys = <<>>]
    ELSE truck_run_loaded([Begin(q) EXCEPT !.sys = <<>>], scenario_name,
            load_scenario(TruckSetup,
                scenarios[find_scenario(scenarios, 1, scenario_name)], 1),
            truck_compute(TruckOutInit,
                [k \in DOMAIN TruckDefault |->
                    Value(load_scenario(TruckSetup,
                        scenarios[find_scenario(scenarios, 1, scenario_name)],
                        1).sys[k])]))

(***************************************************************************)
(* The scenario runners: the caller edits inputs_opex.json or picks the    *)
(* scenario name, then calls run_ship_scenario or run_truck_scenario.  sys *)
(* is the calculator the call returned, files the result files on disk by  *)
(* name; both are empty until a call has returned or written.              *)
(***************************************************************************)
\* inputs_opex.json with the values g of GT, k of ship_class, n of team_count
InputsOpex(g, k, n) ==
    << << <<"name", JStr("base")>>, <<"description", JStr("a ferry")>>,
          <<"GT", g>>, <<"ship_class", k>>, <<"team_count", n>>,
          <<"comment", JStr("draft")>> >>,
       << <<"name", JStr("alt one")>>, <<"purchase_cost", JInt(2000)>>,
          <<"fuel_mass_kg", JFloat(Q(2000))>>, <<"RV", JInt(1200)>>,
          <<"crew_list", JList(<< [rank |-> JStr("seafarer"),
                                   team_size |-> JInt(4)] >>)>>,
          <<"o_taxes", JInt(7)>> >> >>

Runners == {"run_ship_scenario", "run_truck_scenario"}
ScenarioNames == {"base", "alt one", "none"}
ScenarioNumbers == <<JInt(10), JFloat(R(41, 20)), JStr("10")>>
ScenarioClasses == <<JStr("large"), JInt(7), JFloat(R(5, 2))>>
ScenarioTeams == <<JInt(2), JFloat(R(5, 2))>>

LoadOutInit ==
    [err |-> NoErr, calls |-> 0, sys |-> <<>>,
     files |-> [f \in {"base", "alt_one"} |-> <<>>]]

SetScenarioName ==
    /\ calc \in Runners
    /\ out.calls < MaxCalls
    /\ \E n \in ScenarioNames : vp' = [vp EXCEPT !.scenario_name = n]
    /\ UNCHANGED <<calc, cp, out>>

RunShipScenario ==
    /\ calc = "run_ship_scenario"
    /\ out.calls < MaxCalls
    /\ out' = run_ship_scenario(out, vp.scenarios, vp.scenario_name)
    /\ UNCHANGED <<calc, vp, cp>>

RunTruckScenario ==
    /\ calc = "run_truck_scenario"
    /\ out.calls < MaxCalls
    /\ out' = run_truck_scenario(out, vp.scenarios, vp.scenario_name)
    /\ UNCHANGED <<calc, vp, cp>>

InitLoad ==
    /\ calc \in Runners
    /\ \E g \in DOMAIN ScenarioNumbers, k \in DOMAIN ScenarioClasses,
          n \in DOMAIN ScenarioTeams :
          vp = [scenario_name |-> "base",
                scenarios |-> InputsOpex(ScenarioNumbers[g], ScenarioClasses[k],
                                         ScenarioTeams[n])]
    /\ cp = CPDefault
    /\ out = LoadOutInit

NextLoad == SetScenarioName \/ RunShipScenario \/ RunTruckScenario
SpecLoad == InitLoad /\ [][NextLoad]_vars

(***************************************************************************)
(* Claims about the CAPEX calculators                                      *)
(***************************************************************************)
CapexTerms(o) ==
    <<o.c_vehicle_cost, o.c_infrastructure_cost, o.c_taxes, o.c_subsidies,
      o.c_financing_cost>>

SystemTerms(o) ==
    <<o.vehicle_cost_component, o.infrastructure_cost_component, o.taxes_component,
      o.subsidies_component, o.financing_component>>

\* vehicle + infrastructure + taxes - subsidies + financing
TermsSum(t) == QAdd(QSub(QAdd(QAdd(t[1], t[2]), t[3]), t[4]), t[5])

C1_Step ==
    /\ (calc = "VehicleCAPEXCalculator" /\ out'.calls = out.calls + 1
        /\ out'.err = NoErr)
       => /\ out'.c_capex_total = TermsSum(CapexTerms(out'))
          /\ CapexTerms(out') = CapexTerms(capex_compute(CapexOutInit, vp))
    /\ (calc = "CAPEXSystem" /\ out'.calls = out.calls + 1 /\ out'.err = NoErr)
       => /\ out'.total_capex = TermsSum(SystemTerms(out'))
          /\ SystemTerms(out')
               = SystemTerms(CAPEXSystem_compute(SystemOutInit, vp, TRUE))

\* C1: every compute() of VehicleCAPEXCalculator that returns without an
\* exception leaves c_capex_total = c_vehicle_cost + c_infrastructure_cost +
\* c_taxes - c_subsidies + c_financing_cost, the five terms being those a fresh
\* instance computes from the inputs of that call; the same holds for
\* CAPEXSystem.total_capex over its five components.
C1_CapexTotalIdentity == [][C1_Step]_vars

\* a second call succeeded with every term of the sum positive
C1_Witness ==
    /\ calc = "VehicleCAPEXCalculator"
    /\ out.calls = 2 /\ out.err = NoErr
    /\ QPos(out.c_vehicle_cost) /\ QPos(out.c_infrastructure_cost)
    /\ QPos(out.c_taxes) /\ QPos(out.c_subsidies) /\ QPos(out.c_financing_cost)
    /\ out.c_capex_total = TermsSum(CapexTerms(out))


(***************************************************************************)
(* Claims about the OPEX calculators                                       *)
(***************************************************************************)
TruckTerms(o) == <<o.o_taxes, o.o_tolls, o.o_insurance, o.o_crew, o.o_energy>>

C2_Step ==
    (calc \in TruckCalcs /\ out'.calls = out.calls + 1 /\ out'.err = NoErr)
    => /\ out'.o_opex_total =
             QAdd(QAdd(QAdd(QAdd(QAdd(out'.o_taxes, out'.o_tolls), out'.o_insurance),
                       out'.o_crew), out'.o_energy), vp.maintenance_cost)
       /\ TruckTerms(out') =
             TruckTerms(IF calc = "TruckOPEXCalculator"
                        THEN truck_compute(TruckOutInit, vp)
                        ELSE doc_compute(TruckOutInit, vp))

\* C2: every compute() of TruckOPEXCalculator (either variant) that returns
\* without an exception leaves o_opex_total = o_taxes + o_tolls + o_insurance +
\* o_crew + o_energy + maintenance_cost, the five computed terms being those a
\* fresh instance computes from the inputs of that call.
C2_TruckTotalIdentity == [][C2_Step]_vars

\* a second call of the strict variant succeeded with a non-zero maintenance cost
C2_Witness ==
    /\ calc = "TruckOPEXCalculator"
    /\ out.calls = 2 /\ out.err = NoErr
    /\ QPos(vp.maintenance_cost)
    /\ QPos(out.o_taxes) /\ QPos(out.o_tolls) /\ QPos(out.o_insurance)
    /\ QPos(out.o_crew) /\ QPos(out.o_energy)
    /\ out.o_opex_total = truck_total(out, vp)

ShipUpstream(o) == <<o.o_taxes, o.o_ports, o.o_insurance, o.o_crew, o.o_energy>>

\* the outwards o with d added to the k-th upstream value
ShipShifted(o, k, d) ==
    CASE k = 1 -> [o EXCEPT !.o_taxes = QAdd(@, d)]
      [] k = 2 -> [o EXCEPT !.o_ports = QAdd(@, d)]
      [] k = 3 -> [o EXCEPT !.o_insurance = QAdd(@, d)]
      [] k = 4 -> [o EXCEPT !.o_crew = QAdd(@, d)]
      [] k = 5 -> [o EXCEPT !.o_energy = QAdd(@, d)]

C3_Step ==
    (calc = "ShipOPEXCalculator" /\ out'.calls = out.calls + 1 /\ out'.err = NoErr)
    => /\ ShipUpstream(out') = ShipUpstream(ship_compute(ShipOutInit, vp))
       /\ out'.o_maintenance =
             QMul(QAdd(QAdd(QAdd(QAdd(out'.o_taxes, out'.o_ports), out'.o_insurance),
                            out'.o_crew), out'.o_energy), maintenance_rate(vp))
       /\ \A k \in 1..5, d \in {Q(-3), R(1, 2), Q(7)} :
             compute_o_maintenance_ship(ShipShifted(out', k, d), vp).o_maintenance
                = QAdd(out'.o_maintenance, QMul(maintenance_rate(vp), d))

\* C3: every compute() of ShipOPEXCalculator that returns without an exception
\* leaves o_maintenance = (o_taxes + o_ports + o_insurance + o_crew + o_energy)
\* x maintenance_rate[ship_class], the five values being those a fresh instance
\* computes from the inputs of that call, and the maintenance step applied to
\* outwards with one upstream value shifted by d yields o_maintenance shifted by
\* maintenance_rate x d.
C3_MaintenanceLast == [][C3_Step]_vars

\* a second call succeeded with a positive rate, a positive energy cost and a
\* maintenance cost that is the rate times the sum of the five
C3_Witness ==
    /\ calc = "ShipOPEXCalculator"
    /\ out.calls = 2 /\ out.err = NoErr
    /\ QPos(maintenance_rate(vp)) /\ QPos(out.o_energy) /\ QPos(out.o_taxes)
    /\ QPos(out.o_maintenance)
    /\ out.o_maintenance =
          QMul(QAdd(QAdd(QAdd(QAdd(out.o_taxes, out.o_ports), out.o_insurance),
                         out.o_crew), out.o_energy), maintenance_rate(vp))

(***************************************************************************)
(* Claims about the residual-value calculators                              *)
(***************************************************************************)
RVOutputs(o) == <<o.rv, o.total_depreciation, o.total_impact_health,
                  o.total_external_factors>>

\* this step is a compute() of ResidualValueCalculator
RVCalled == calc = "ResidualValueCalculator" /\ out'.calls = out.calls + 1

C4_Step == RVCalled => RVOutputs(out') = RVOutputs(rv_compute(RVOutInit, vp, cp))

\* C4: after every compute() of ResidualValueCalculator the outputs rv,
\* total_depreciation, total_impact_health and total_external_factors equal
\* those of a fresh instance run once on the inputs of that call, also when
\* a database key is missing or total_impact_health is 0 in that call.
C4_FreshOutputs == [][C4_Step]_vars

\* the steps of compute() that run before the efficiency step raised no exception
ReachedEfficiency == out'.err # "KeyError: compute_depreciation"

\* the steps that run before the charging step raised no exception
ReachedCharging ==
    /\ ReachedEfficiency
    /\ out'.err \notin {"KeyError: compute_eficiency",
                        "ZeroDivisionError: compute_eficiency",
                        "KeyError: compute_obsolescence"}

\* the steps that run before the warranty step raised no exception
ReachedWarranty == ReachedCharging /\ out'.err # "KeyError: compute_charging"

\* the warranty step has run in this step
WarrantyRan ==
    \/ RVCalled /\ ReachedWarranty
    \/ calc = "WarrantySystem" /\ out'.calls = out.calls + 1

\* elapsed: the years since the purchase for a warranty in years, the
\* travelled distance for a warranty in distance (WarrantySystem has no
\* distance among its inwards and counts years for every warranty)
Elapsed(v) ==
    IF v.type_warranty = "km" /\ "travel_measure" \in DOMAIN v THEN v.travel_measure
    ELSE Q(v.current_year - v.year_purchase)

C7_Step ==
    (WarrantyRan /\ QPos(vp.warranty))
    => /\ QLe(vp.warranty, Elapsed(vp)) => out'.warranty_penalty = Q(100)
       /\ QIsZero(Elapsed(vp)) => out'.warranty_penalty = Zero
       /\ QLe(Zero, out'.warranty_penalty) /\ QLe(out'.warranty_penalty, Q(100))

\* C7: with a positive warranty duration, every run of the warranty step
\* (ResidualValueCalculator.compute_warranty, WarrantySystem.compute of
\* main.py) leaves warranty_penalty = 100 when elapsed >=
\* warranty, warranty_penalty = 0 when elapsed = 0, and a penalty within
\* 0..100, elapsed being current_year - year_purchase for a warranty in
\* years and travel_measure for a warranty in distance.
C7_WarrantyPenalty == [][C7_Step]_vars

BatteryElectric == {"electric", "BEV", "BET"}

\* the charging step has run in this step
ChargingRan ==
    \/ RVCalled /\ ReachedCharging
    \/ calc = "ChargingSystem" /\ out'.calls = out.calls + 1

C8_Step ==
    (ChargingRan /\ vp.type_energy \notin BatteryElectric)
    => out'.charging_penalty = Zero

\* C8: every run of the charging step (ResidualValueCalculator.compute_charging,
\* the same in rv_functions.py, and ChargingSystem.compute of main.py) with an
\* energy type that is not battery-electric leaves charging_penalty = 0,
\* whatever the charging profile and whatever penalty an earlier call left.
C8_NoChargingPenalty == [][C8_Step]_vars

\* a second call on a diesel vehicle, with a charging profile that costs a
\* battery-electric vehicle a penalty, went through and left the penalty 0
C8_Witness ==
    /\ calc = "ResidualValueCalculator"
    /\ out.calls = 2 /\ out.err = NoErr
    /\ vp.type_energy = "DIESEL"
    /\ QPos(compute_charging_unguarded(out, vp).charging_penalty)
    /\ out.charging_penalty = Zero
    /\ QPos(out.total_impact_health)

C9_Step ==
    (/\ RVCalled /\ ReachedEfficiency
     /\ vp.type_energy = "BEV" /\ QIsZero(vp.consumption_real))
    => out'.efficiency_penalty = Q(15)

\* C9: every compute() of ResidualValueCalculator that reaches the efficiency
\* step with a battery-electric vehicle whose consumption_real is 0 leaves
\* efficiency_penalty = 15, whatever the battery capacity and the autonomy.
C9_DefaultEfficiency == [][C9_Step]_vars

(***************************************************************************)
(* Claims about the capital recovery factor                                 *)
(***************************************************************************)
\* this step runs the financing step on the inputs vp
FinStep == out' # out /\ vp' = vp

C5_Step ==
    (FinStep /\ QIsZero(vp.rate)) => (out'.err = NoErr /\ out'.crf = One)

\* C5: whatever the loan term n, a financing step run with an adjusted
\* interest rate of 0 leaves a capital recovery factor of exactly 1.
C5_CrfAtZeroRate == [][C5_Step]_vars

\* the factor was computed from a rate of 0 and the longest term
C5_Witness ==
    /\ out.done /\ out.err = NoErr
    /\ QIsZero(out.rate) /\ out.loan_years = MaxTerm /\ out.crf = One

\* the factor of this step is no smaller than the factor out holds, when both
\* are computed from the same term n > 0 and out's rate is the smaller
C6_Ordered ==
    (/\ FinStep /\ out.done /\ out.err = NoErr /\ out'.err = NoErr
     /\ out.loan_years = vp.loan_years /\ vp.loan_years > 0
     /\ QLt(out.rate, vp.rate))
    => QLe(out.crf, out'.crf)

\* C6 as stated: for every term n > 0 and all rates 0 <= r1 < r2, the factor
\* computed from r1 is at most the factor computed from r2.
C6_MonotoneFromZero == [][QLe(Zero, out.rate) => C6_Ordered]_vars

\* C6: for every term n > 0 and all rates 0 < r1 < r2, the capital recovery
\* factor computed from r1 is at most the factor computed from r2.
C6_MonotonePositive == [][QPos(out.rate) => C6_Ordered]_vars

\* a factor below 1, the factor at rate 0, computed from a positive rate
C6_Witness ==
    /\ out.done /\ out.err = NoErr
    /\ out.rate = R(1, 4) /\ out.loan_years = 2 /\ vp.loan_years = 2
    /\ vp.rate = R(1, 2)
    /\ out.crf = R(25, 36) /\ QLt(out.crf, CRF(vp.rate, vp.loan_years)[2])

(***************************************************************************)
(* Claims about the lookups of the reference database                       *)
(***************************************************************************)
\* the exception compute() raises to its caller, if any: the except clause of
\* ResidualValueCalculator.compute prints the exception and returns
RaisedToCaller(c, o) == IF c = "ResidualValueCalculator" THEN NoErr ELSE o.err

\* the total the calculator reports
ReportedTotal(c, o) ==
    CASE c = "TruckOPEXCalculator" -> o.o_opex_total
      [] c = "ShipOPEXCalculator" -> o.o_opex_total
      [] c = "VehicleCAPEXCalculator" -> o.c_capex_total
      [] c = "ResidualValueCalculator" -> o.rv

\* the country of the inputs is absent from the database of the calculator,
\* or a top-level category the calculator reads is absent for it
TopLevelMissing ==
    CASE calc = "TruckOPEXCalculator" ->
            \E k \in {"taxes", "tolls", "insurance", "crew", "energy"} :
               truck_get_db_params(vp, k) # NoErr
      [] calc = "ShipOPEXCalculator" ->
            \/ \E k \in {"taxes_opex", "insurance", "crew"} :
                  ship_get_db_params(vp.country_reg, k) # NoErr
            \/ \E k \in {"ports", "energy", "maintenance"} :
                  ship_get_db_params(vp.country_oper, k) # NoErr
      [] calc = "VehicleCAPEXCalculator" ->
            \E k \in {"infrastructure", "taxes_registration", "subsidies",
                      "financing"} :
               ~ HasPath(CapexCountries, <<vp.registration_country, k>>)
      [] calc = "ResidualValueCalculator" ->
            \E k \in {"depreciation", "yearly_obsolescence_rate",
                      "external_factors"} :
               ~ HasPath(RVCountries, <<vp.registration_country, k>>)
      [] OTHER -> FALSE

C10_Step ==
    (out'.calls = out.calls + 1 /\ TopLevelMissing)
    => /\ RaisedToCaller(calc, out') # NoErr
       /\ ReportedTotal(calc, out') = ReportedTotal(calc, out)

\* C10: every compute() of the truck OPEX, ship OPEX, CAPEX or RV calculator
\* whose country is absent from the database, or for whose country a needed
\* top-level category is absent, raises an error to its caller and assigns no
\* total.
C10_TopLevelLookupFails == [][C10_Step]_vars

(***************************************************************************)
(* Claims about the leaf-level lookups of the truck OPEX calculators        *)
(***************************************************************************)
\* the country is in the database of the variant and, for the variant that
\* reads its tables by category, so are the five categories
TruckTopLevelPresent ==
    IF calc = "TruckOPEXCalculator"
    THEN \A k \in {"taxes", "tolls", "insurance", "crew", "energy"} :
            truck_get_db_params(vp, k) = NoErr
    ELSE vp.registration_country \in DOMAIN TruckDocDB

C11_Step ==
    (calc \in TruckCalcs /\ out'.calls = out.calls + 1 /\ TruckTopLevelPresent)
    => (out'.err = NoErr /\ out'.o_opex_total = truck_total(out', vp))

\* C11: every compute() of the truck OPEX calculator (either variant) whose
\* country and categories are present raises nothing, whatever energy type or
\* vehicle class is absent from a leaf table, and leaves an o_opex_total that
\* is the sum of its components.
C11_LeafFallback == [][C11_Step]_vars

(***************************************************************************)
(* Claims about the failure semantics of VehicleCAPEXCalculator            *)
(***************************************************************************)
\* the category is absent from the entry of the registration country
CapexMissing(v, category) == category \notin DOMAIN capex_get_country_data(v)

\* the outward is 0.0 when the category it is read from is missing
ZeroWhenMissing(o, v) ==
    /\ CapexMissing(v, "infrastructure") => QIsZero(o.c_infrastructure_cost)
    /\ CapexMissing(v, "taxes_registration") => QIsZero(o.c_taxes)
    /\ CapexMissing(v, "subsidies") => QIsZero(o.c_subsidies)
    /\ CapexMissing(v, "financing") => QIsZero(o.c_financing_cost)

\* the database lacks at least one category for the registration country
SomeCapexMissing(v) ==
    \E category \in {"infrastructure", "taxes_registration", "subsidies", "financing"} :
        CapexMissing(v, category)

C12_Step ==
    (calc = "VehicleCAPEXCalculator" /\ out'.calls = out.calls + 1
        /\ SomeCapexMissing(vp))
    => (out'.err = NoErr /\ ZeroWhenMissing(out', vp))

\* C12: every VehicleCAPEXCalculator.compute(), whatever entries of the
\* database are missing, raises nothing and leaves 0.0 in every cost
\* component whose database entry is missing.
C12_MissingEntriesCostNothing == [][C12_Step]_vars

\* what compute() leaves when the fleet size is taken as 1
WithFleetOfOne(c, o, v) ==
    IF c = "VehicleCAPEXCalculator"
    THEN {capex_compute(o, [v EXCEPT !.vehicle_number = 1])}
    ELSE {CAPEXSystem_compute(o, [v EXCEPT !.vehicle_number = 1], settable) :
            settable \in BOOLEAN}

C13_Step ==
    (calc \in {"VehicleCAPEXCalculator", "CAPEXSystem"}
        /\ out'.calls = out.calls + 1 /\ vp.vehicle_number = 0)
    => out' \in WithFleetOfOne(calc, out, vp)

\* C13: a compute() of VehicleCAPEXCalculator or of CAPEXSystem with
\* vehicle_number = 0 raises no division error: it leaves what the same call
\* leaves with a fleet size of 1.
C13_ZeroFleetGuarded == [][C13_Step]_vars

\* every outward of VehicleCAPEXCalculator
CapexOutwards(o) == [o EXCEPT !.err = NoErr, !.calls = 0]

C14_Step ==
    (calc = "VehicleCAPEXCalculator" /\ out'.calls = out.calls + 1
        /\ out'.err = NoErr)
    => CapexOutwards(out') = CapexOutwards(capex_compute(CapexOutInit, vp))

\* C14: after every compute() of VehicleCAPEXCalculator that returns, first
\* or second on the instance, every outward (the costs, c_crf, the fleet
\* energies and the three charger counts) equals what a fresh instance
\* computes from the inputs of that call.
C14_HistoryFree == [][C14_Step]_vars

(***************************************************************************)
(* Claims about run_tco_scenario                                           *)
(***************************************************************************)
\* this step is a call of run_tco_scenario
ScenarioCalled == calc = "run_tco_scenario" /\ out'.calls = out.calls + 1

\* a truck or ship scenario over a horizon of at least a year whose CAPEX
\* entries are all in the database (the OPEX and RV entries always are)
WellFormed(s) ==
    /\ s.asset_type \in {"truck", "ship"}
    /\ s.operation_years >= 1
    /\ s.capex.country = "France"
    /\ s.capex.vehicle_number >= 1 /\ s.capex.loan_years >= 1

RECURSIVE Annuity(_, _, _)
\* sum over n = 1..N of a / (1 + r)^n
Annuity(a, r, N) ==
    IF N = 0 THEN Zero
    ELSE QAdd(QDiv(a, QPow(QAdd(One, r), N)), Annuity(a, r, N - 1))

\* (capex_total - rv / (1 + r)^N) * crf + the annuity of opex_annual
TcoOf(res, r, N) ==
    QAdd(QMul(QSub(res.capex_total, QDiv(res.rv, QPow(QAdd(One, r), N))), res.crf),
         Annuity(res.opex_annual, r, N))

C15_Step ==
    (ScenarioCalled /\ WellFormed(vp))
    => /\ out'.err = NoErr
       /\ out'.tco_total = TcoOf(out', vp.discount_rate, vp.operation_years)
       /\ out'.equivalent_annual_cost = QDiv(out'.tco_total, Q(vp.operation_years))

\* C15: every run_tco_scenario on a well-formed scenario with a horizon
\* N >= 1 returns tco_total = (capex_total - rv / (1 + r)^N) * crf + the sum
\* over n = 1..N of opex_annual / (1 + r)^n, and equivalent_annual_cost =
\* tco_total / N.
C15_TcoFormula == [][C15_Step]_vars

C16_Step ==
    (ScenarioCalled /\ WellFormed(vp))
    => /\ out'.err = NoErr
       /\ Len(out'.ran) >= 3
       /\ <<out'.ran[1], out'.ran[2], out'.ran[3]>> = <<"capex", "opex", "rv">>

\* C16: every run_tco_scenario on a well-formed truck or ship scenario runs
\* the CAPEX, the OPEX and the RV calculator to completion, in that order,
\* and returns a result; no exception ends it.
C16_RunsToCompletion == [][C16_Step]_vars

(***************************************************************************)
(* Claims about the charging and fueling infrastructure                    *)
(***************************************************************************)
\* n is the least integer n >= 0 with n * capacity >= demand
IsLeastCover(n, demand, capacity) ==
    /\ n >= 0
    /\ QLe(demand, QMul(Q(n), capacity))
    /\ n > 0 => QLt(QMul(Q(n - 1), capacity), demand)

\* the energy of unit id in a tier: E_t times the tier's fraction
UnitEnergy(d, id, k) ==
    QMul(Get(Get(d, id, NoDict), "E_t", Zero), Get(Get(d, id, NoDict), k, Zero))

\* per tier of VehicleCAPEXCalculator: the count the user gave, the count the
\* call left, the fleet energy, the charger parameters and the energy of the
\* unit under evaluation
CapexTiers(o, v) ==
    << [given |-> v.n_slow, n |-> o.n_slow_calculated, E |-> o.E_total_slow,
        params |-> get_charger_params(v, "slow"),
        unit |-> UnitEnergy(v.vehicle_dict, ToString(v.vehicle_id), "Private_S_t")],
       [given |-> v.n_fast, n |-> o.n_fast_calculated, E |-> o.E_total_fast,
        params |-> get_charger_params(v, "fast"),
        unit |-> UnitEnergy(v.vehicle_dict, ToString(v.vehicle_id), "Private_F_t")],
       [given |-> v.n_ultra, n |-> o.n_ultra_calculated, E |-> o.E_total_ultra,
        params |-> get_charger_params(v, "ultra"),
        unit |-> UnitEnergy(v.vehicle_dict, ToString(v.vehicle_id), "Private_U_t")] >>

\* the outwards of the InfrastructureSystem child after CAPEXSystem has run it
InfraChild(v) == InfrastructureSystem_compute(v, FleetSystem_compute(v))

\* the same per tier of InfrastructureSystem
SystemTiers(v) ==
    << [given |-> v.n_slow, n |-> InfraChild(v).n_slow_calculated,
        E |-> FleetSystem_compute(v).slow, params |-> SystemDB.chargers.slow,
        unit |-> UnitEnergy(v.vehicle_dict, v.id, "S_t")],
       [given |-> v.n_fast, n |-> InfraChild(v).n_fast_calculated,
        E |-> FleetSystem_compute(v).fast, params |-> SystemDB.chargers.fast,
        unit |-> UnitEnergy(v.vehicle_dict, v.id, "F_t")],
       [given |-> v.n_ultra, n |-> InfraChild(v).n_ultra_calculated,
        E |-> FleetSystem_compute(v).ultra, params |-> SystemDB.chargers.ultra,
        unit |-> UnitEnergy(v.vehicle_dict, v.id, "U_t")] >>

\* every tier the user gave no count for has the least covering count
DerivedCounts(tiers) ==
    \A i \in 1..3 :
        IsNone(tiers[i].given)
        => IsLeastCover(tiers[i].n, H_demand(tiers[i].E, tiers[i].params)[2],
                        H_cap(tiers[i].params))

\* this step is a compute() of VehicleCAPEXCalculator that returns, for an
\* electric powertrain
ElectricCapexRan ==
    /\ calc = "VehicleCAPEXCalculator" /\ out'.calls = out.calls + 1
    /\ out'.err = NoErr /\ vp.type_energy \in {"BEV", "PHEV"}

\* the same of CAPEXSystem
ElectricSystemRan ==
    /\ calc = "CAPEXSystem" /\ out'.calls = out.calls + 1
    /\ out'.err = NoErr /\ IsBet(vp.powertrain_type)

C17_Step ==
    /\ ElectricCapexRan => DerivedCounts(CapexTiers(out', vp))
    /\ ElectricSystemRan => DerivedCounts(SystemTiers(vp))

\* C17: after every compute() for an electric powertrain, each charger tier
\* the user gave no count for has the least count n >= 0 with n * (operating
\* hours per day * operating days per year) >= fleet energy of the tier /
\* (rated power * efficiency), which is 0 when that energy is 0; in
\* VehicleCAPEXCalculator and in InfrastructureSystem.
C17_DerivedChargerCounts == [][C17_Step]_vars

\* the share of the unit in a tier: 0 when the fleet has no energy in it
TierShare(t) == IF QPos(t.E) THEN QDiv(t.unit, t.E) ELSE Zero

\* the sum over the three tiers of n * params[k] * share
Allocated(tiers, k) ==
    QAdd(QMul(QMul(Q(tiers[1].n), Get(tiers[1].params, k, Zero)), TierShare(tiers[1])),
    QAdd(QMul(QMul(Q(tiers[2].n), Get(tiers[2].params, k, Zero)), TierShare(tiers[2])),
         QMul(QMul(Q(tiers[3].n), Get(tiers[3].params, k, Zero)), TierShare(tiers[3]))))

C18_Step ==
    /\ ElectricCapexRan
       => /\ out'.c_infrastructure_hardware
                = Allocated(CapexTiers(out', vp), "price_eur")
          /\ out'.c_infrastructure_installation
                = Allocated(CapexTiers(out', vp), "installation_cost_eur")
    /\ ElectricSystemRan
       => /\ InfraChild(vp).hardware_cost = Allocated(SystemTiers(vp), "price_eur")
          /\ InfraChild(vp).installation_cost
                = Allocated(SystemTiers(vp), "installation_cost_eur")

\* C18: after every compute() for an electric powertrain the hardware cost,
\* and likewise the installation cost, of the unit is the sum over the tiers
\* slow, fast, ultra of count * unit price * (energy of the unit in the tier /
\* fleet energy in the tier), a share being 0 when the fleet energy is 0; in
\* VehicleCAPEXCalculator and in InfrastructureSystem.
C18_TierAllocation == [][C18_Step]_vars

\* this step is a compute() of VehicleCAPEXCalculator that returns, for a
\* non-electric powertrain
FueledCapexRan ==
    /\ calc = "VehicleCAPEXCalculator" /\ out'.calls = out.calls + 1
    /\ out'.err = NoErr /\ vp.type_energy \notin {"BEV", "PHEV"}

\* the share of the unit in the private energy of the fleet
PrivateShare(o, v) ==
    IF QPos(o.E_total_private)
    THEN QDiv(UnitEnergy(v.vehicle_dict, ToString(v.vehicle_id), "Private_t"),
              o.E_total_private)
    ELSE Zero

\* the per-station costs of the station type of the powertrain: hardware, grid
\* connection and installation
StationCosts(v) ==
    LET t == station_type_map(v.type_energy)
        p == get_station_params(v, t)
    IN  [hardware |-> Get(p, "hardware_cost_per_station_eur", Zero),
         grid |-> IF t = "H2_ICE"
                  THEN Get(p, "electrolyzer_grid_connection_cost_eur", Zero)
                  ELSE IF t \in {"GNV", "LNG"}
                  THEN Get(p, "electricity_connection_cost_eur", Zero)
                  ELSE Zero,
         installation |-> Get(p, "installation_cost_per_station_eur",
                              Get(p, "installation_cost_per_pump_eur", Zero))]

\* n_stations * per-station cost * share
StationShare(o, v, cost) ==
    QMul(QMul(Q(OrOne(v.n_stations)), cost), PrivateShare(o, v))

C19_Step ==
    FueledCapexRan
    => /\ out'.c_infrastructure_hardware
            = StationShare(out', vp, StationCosts(vp).hardware)
       /\ out'.c_infrastructure_grid = StationShare(out', vp, StationCosts(vp).grid)
       /\ out'.c_infrastructure_installation
            = StationShare(out', vp, StationCosts(vp).installation)

\* C19: after every compute() of VehicleCAPEXCalculator for a non-electric
\* powertrain, each of the station hardware, grid-connection and installation
\* costs of the unit is n_stations * the per-station cost * the unit's share of
\* the fleet's private energy, the share being 0 when the fleet total is 0.
C19_StationAllocation == [][C19_Step]_vars


\* the total connected power: the sum over the three tiers of n * rated power
ConnectedPower(tiers) ==
    QAdd(QMul(Q(tiers[1].n), Get(tiers[1].params, "power_kw", Zero)),
    QAdd(QMul(Q(tiers[2].n), Get(tiers[2].params, "power_kw", Zero)),
         QMul(Q(tiers[3].n), Get(tiers[3].params, "power_kw", Zero))))

\* tier i of the grid table has a max-power threshold >= the power p
Qualifies(table, i, p) == QLe(p, table[i].max_power_kw)

\* the cost of the first qualifying tier in table order, else of the last tier
TieredCost(table, p) ==
    IF \E i \in 1..Len(table) : Qualifies(table, i, p)
    THEN table[CHOOSE i \in 1..Len(table) :
                   /\ Qualifies(table, i, p)
                   /\ \A j \in 1..(i - 1) : ~Qualifies(table, j, p)].cost_eur
    ELSE table[Len(table)].cost_eur

\* the unit's share of the total power draw, 0 when the total power is 0
PowerShare(tiers) ==
    IF QPos(ConnectedPower(tiers))
    THEN QDiv(Allocated(tiers, "power_kw"), ConnectedPower(tiers))
    ELSE Zero

\* the grid-connection table of the registration country
GridTable(v) ==
    Get(Get(capex_infrastructure(v), "grid_connection", NoDict), "tiers", <<>>)

C20_Step ==
    /\ (ElectricCapexRan /\ Len(GridTable(vp)) > 0)
       => /\ get_grid_cost(vp, ConnectedPower(CapexTiers(out', vp)))
                = TieredCost(GridTable(vp), ConnectedPower(CapexTiers(out', vp)))
          /\ out'.c_infrastructure_grid
                = QMul(TieredCost(GridTable(vp), ConnectedPower(CapexTiers(out', vp))),
                       PowerShare(CapexTiers(out', vp)))
    /\ ElectricSystemRan
       => /\ SystemGridCost(ConnectedPower(SystemTiers(vp)))
                = TieredCost(SystemDB.tiers, ConnectedPower(SystemTiers(vp)))
          /\ InfraChild(vp).grid_cost
                = QMul(TieredCost(SystemDB.tiers, ConnectedPower(SystemTiers(vp))),
                       PowerShare(SystemTiers(vp)))

\* C20: after every compute() for an electric powertrain, get_grid_cost of
\* the total connected power is the cost of the first tier, in table order,
\* whose max-power threshold is >= that power, and the cost of the last tier
\* when no tier qualifies; and the grid cost of the unit is that cost times
\* the unit's share of the total power draw, 0 when the total power is 0; in
\* VehicleCAPEXCalculator and in InfrastructureSystem.
C20_GridTiering == [][C20_Step]_vars

\* a VehicleCAPEXCalculator run whose connected power exceeds every threshold
\* and is charged a positive part of the last tier's cost
C20_Witness ==
    /\ calc = "VehicleCAPEXCalculator" /\ out.calls > 0 /\ out.err = NoErr
    /\ vp.type_energy = "BEV" /\ Len(GridTable(vp)) > 0
    /\ \A i \in 1..Len(GridTable(vp)) :
           ~Qualifies(GridTable(vp), i, ConnectedPower(CapexTiers(out, vp)))
    /\ QPos(out.c_infrastructure_grid)
    /\ out.c_infrastructure_grid
         = QMul(GridTable(vp)[Len(GridTable(vp))].cost_eur, PowerShare(CapexTiers(out, vp)))

\* a compute() of VehicleCAPEXCalculator that returned
CapexRan == calc = "VehicleCAPEXCalculator" /\ out'.calls = out.calls + 1 /\ out'.err = NoErr

\* a compute() of CAPEXSystem that returned
SystemRan == calc = "CAPEXSystem" /\ out'.calls = out.calls + 1 /\ out'.err = NoErr

C21_Step ==
    /\ CapexRan
       => out'.c_subsidies
            = QAdd(get_subsidies_params(vp).vehicle_subsidy,
                   QMul(out'.c_infrastructure_cost,
                        get_subsidies_params(vp).infrastructure_subsidy_rate))
    /\ SystemRan
       => out'.subsidies_component
            = QAdd(get_vehicle_subsidy(vp, out'.vehicle_cost_component),
                   QMul(out'.infrastructure_cost_component,
                        Get(SystemSubsidyData(vp), "infrastructure_subsidy_rate", Zero)))

\* C21: after every compute(), for every fleet size, the subsidies total is
\* the vehicle-purchase subsidy plus the infrastructure subsidy, the latter
\* being the infrastructure cost of the same call * the infrastructure
\* subsidy rate; in VehicleCAPEXCalculator and in SubsidiesSystem.
C21_SubsidiesTotal == [][C21_Step]_vars

\* a compute() of TruckOPEXCalculator (functions/Opex_Calculator.py) that returned
TruckRan == calc = "TruckOPEXCalculator" /\ out'.calls = out.calls + 1 /\ out'.err = NoErr

\* insurance_rate[energy type] of the registration country
TruckInsuranceRate(v) ==
    TruckDB[v.registration_country].insurance.insurance_rate_c_L_e_safety[v.type_energy]

C22_Step ==
    TruckRan
    => /\ out'.o_insurance
            = QMul(TruckInsuranceRate(vp), QSub(vp.purchase_cost, vp.RV))
       /\ QLt(out'.o_insurance, Zero)
            <=> (QPos(TruckInsuranceRate(vp)) /\ QLt(vp.purchase_cost, vp.RV))

\* C22: after every compute() of TruckOPEXCalculator, for every purchase_cost
\* and RV, o_insurance is insurance_rate[energy type] * (purchase_cost - RV),
\* unclamped: it is negative exactly when the rate is positive and RV exceeds
\* purchase_cost.
C22_InsuranceUnclamped == [][C22_Step]_vars

\* a run with RV above purchase_cost that left a negative insurance cost
C22_Witness ==
    /\ calc = "TruckOPEXCalculator" /\ out.calls > 0 /\ out.err = NoErr
    /\ QLt(vp.purchase_cost, vp.RV)
    /\ QLt(out.o_insurance, Zero)
    /\ out.o_insurance = QMul(TruckInsuranceRate(vp), QSub(vp.purchase_cost, vp.RV))

\* cycles = E_annual_kwh / (C_bat_kwh * DoD) when both are positive, else 0
BatteryCycles(v) ==
    IF QPos(v.C_bat_kwh) /\ QPos(v.DoD)
    THEN QDiv(v.E_annual_kwh, QMul(v.C_bat_kwh, v.DoD))
    ELSE Zero

\* the degradation per cycle weighted by the shares of slow, fast and ultra charging
WeightedDegradation(v) ==
    QAdd(QAdd(QMul(v.S_slow, RVVehicles.d_slow.electric),
              QMul(v.S_fast, RVVehicles.d_fast.electric)),
         QMul(v.S_ultra, RVVehicles.d_ultra.electric))

C23_Step ==
    (/\ RVCalled /\ ReachedCharging
     /\ vp.type_energy = "BEV"
     /\ QPos(BatteryCycles(vp)) /\ QPos(WeightedDegradation(vp))
     /\ QPos(RVVehicles.k_d.electric))
    => QPos(out'.charging_penalty)

\* C23: every run of the charging step of ResidualValueCalculator
\* (functions/rv_calculator.py) for a BEV, the energy type its efficiency step
\* treats as battery-electric, with positive cycles = E_annual_kwh /
\* (C_bat_kwh * DoD), a positive weighted degradation factor and a positive
\* k_d, leaves charging_penalty > 0.
C23_BevChargingPenalty == [][C23_Step]_vars

\* a compute() of ShipOPEXCalculator whose insurance step ran and raised nothing
ShipInsured ==
    /\ calc = "ShipOPEXCalculator" /\ out'.calls = out.calls + 1
    /\ ~Raised(compute_o_insurance_ship(
                 compute_o_ports_ship(compute_o_taxes_ship(Begin(out), vp), vp), vp))

\* the per-class rate when the alias-normalised class is in insurance_per_type,
\* otherwise the per-energy rate, and 0 when that is absent too
ShipInsuranceRate(v) ==
    LET db == ShipParams(v.country_reg, "insurance")
        k == map_ship_class_to_db_key(v.ship_class)
    IN  IF "insurance_per_type" \in DOMAIN db /\ k \in DOMAIN db.insurance_per_type
        THEN db.insurance_per_type[k]
        ELSE IF "insurance_per_energy" \in DOMAIN db
                /\ v.energy_type \in DOMAIN db.insurance_per_energy
        THEN db.insurance_per_energy[v.energy_type]
        ELSE Zero

\* residual values of the insured ship: none, and a fifth of the purchase cost
ShipResiduals == {Zero, Q(200)}

C24_Step ==
    ShipInsured
    => \A residual_value \in ShipResiduals :
          out'.o_insurance
            = QMul(ShipInsuranceRate(vp), QSub(vp.purchase_cost, residual_value))

\* C24: after every compute() of ShipOPEXCalculator that passes the insurance
\* step, o_insurance is rate * (purchase_cost - residual_value) for the
\* residual value of the ship, the rate being the per-class rate when the
\* alias-normalised ship class is in insurance_per_type, otherwise the
\* per-energy rate, and 0 when that is absent too.
C24_ShipInsurance == [][C24_Step]_vars

(***************************************************************************)
(* Claims about the scenario runners                                       *)
(***************************************************************************)
\* the scenario of the name asked for, when there is one
AskedScenario == vp.scenarios[find_scenario(vp.scenarios, 1, vp.scenario_name)]

\* a call of a runner that found its scenario
ScenarioLoaded ==
    /\ calc \in Runners /\ out'.calls = out.calls + 1
    /\ find_scenario(vp.scenarios, 1, vp.scenario_name) # 0

HasItem(items, key) == \E i \in DOMAIN items : items[i][1] = key
ItemOf(items, key) == items[CHOOSE i \in DOMAIN items : items[i][1] = key][2]

\* the attributes of a new calculator, and those of them that are inputs
SetupOf(c) == IF c = "run_ship_scenario" THEN ShipSetup ELSE TruckSetup
InputsOf(c) ==
    IF c = "run_ship_scenario" THEN DOMAIN ShipDefault ELSE DOMAIN TruckDefault

\* the value as the loader assigns it: cast with str for a string default, a
\* number cast to the type of a numeric default, any other value unchanged
Assigned(default, value) ==
    IF default.t = "str" THEN JStr(str(value))
    ELSE IF default.t = "float" /\ value.t = "int" THEN JFloat(Q(value.v))
    ELSE IF default.t = "int" /\ value.t = "float" THEN JInt(Trunc(value.v))
    ELSE value

\* sys has every input named by an item of the scenario assigned, except
\* 'name' and 'description', and every other input at its default
LoadedAsClaimed(sys, items, setup, inputs) ==
    \A k \in inputs :
        sys[k] = IF HasItem(items, k) /\ k \notin {"name", "description"}
                 THEN Assigned(setup[k], ItemOf(items, k))
                 ELSE setup[k]

C25_Step ==
    ScenarioLoaded
    => /\ out'.err # "TypeError: setattr"
       /\ out'.err = NoErr
          => LoadedAsClaimed(out'.sys, AskedScenario, SetupOf(calc), InputsOf(calc))

\* C25: on every call of a runner that finds its scenario, loading raises
\* nothing, and the calculator the call returns has every input that a
\* scenario key names assigned from it (a number cast to the type of the
\* default, a value for a string default cast with str), and every input
\* that no key names, 'name', 'description' and unknown keys being skipped,
\* at its default.
C25_ScenarioLoading == [][C25_Step]_vars

\* two values of the same Python type and the same value
SameValue(a, b) == a.t = b.t /\ a.v = b.v

\* the result file of the scenario of that name
FileOf(o, scenario_name) == o.files[safe_name(scenario_name)]

\* a call of a runner that returned, so that it wrote its result file
ResultsWritten ==
    /\ calc \in Runners /\ out'.calls = out.calls + 1 /\ out'.err = NoErr

C26_Step ==
    ResultsWritten
    => /\ DOMAIN FileOf(out', vp.scenario_name)
            = IF calc = "run_ship_scenario" THEN DOMAIN ShipSetup
              ELSE DOMAIN TruckSetup \ {"team_count"}
       /\ \A k \in DOMAIN FileOf(out', vp.scenario_name) :
             SameValue(json_load(FileOf(out', vp.scenario_name)[k]), out'.sys[k])

ShipSixSum(o) ==
    QAdd(o.o_taxes, QAdd(o.o_ports, QAdd(o.o_insurance,
         QAdd(o.o_crew, QAdd(o.o_maintenance, o.o_energy)))))

\* C27: in every state a ShipOPEXCalculator reaches by compute() calls, also
\* by calls that raise a lookup error part-way, o_opex_total is o_taxes +
\* o_ports + o_insurance + o_crew + o_maintenance + o_energy.
C27_ShipTotalInvariant ==
    calc = "ShipOPEXCalculator" => out.o_opex_total = ShipSixSum(out)

\* the fleet dictionary has exactly the units "1" and "2", and this step is the
\* first compute() of a VehicleCAPEXCalculator, evaluating unit 1, that returns
FleetOfTwoRan ==
    /\ CapexRan /\ out.calls = 0
    /\ DOMAIN vp.vehicle_dict = {"1", "2"} /\ vp.vehicle_id = 1

\* the outwards of a new VehicleCAPEXCalculator evaluated for the other unit of
\* the fleet with the same fleet inputs
OtherUnit(v) == capex_compute(CapexOutInit, [v EXCEPT !.vehicle_id = 2])

\* the sum over the two units of the per-unit cost k
UnitSum(o, v, k) == QAdd(o[k], OtherUnit(v)[k])

\* the fleet cost of a charger item: the sum over the tiers with positive fleet
\* energy of n * params[k]
TierFleetCost(tiers, k) ==
    QAdd(IF QPos(tiers[1].E) THEN QMul(Q(tiers[1].n), Get(tiers[1].params, k, Zero))
         ELSE Zero,
    QAdd(IF QPos(tiers[2].E) THEN QMul(Q(tiers[2].n), Get(tiers[2].params, k, Zero))
         ELSE Zero,
         IF QPos(tiers[3].E) THEN QMul(Q(tiers[3].n), Get(tiers[3].params, k, Zero))
         ELSE Zero))

\* every tier that has chargers has positive fleet energy
AllTiersUsed(tiers) == \A i \in 1..3 : tiers[i].n > 0 => QPos(tiers[i].E)

\* the per-unit charger costs add up to the fleet costs
ChargersConserved(o, v, tiers) ==
    /\ UnitSum(o, v, "c_infrastructure_hardware") = TierFleetCost(tiers, "price_eur")
    /\ UnitSum(o, v, "c_infrastructure_installation")
         = TierFleetCost(tiers, "installation_cost_eur")
    /\ (AllTiersUsed(tiers) /\ QPos(ConnectedPower(tiers)))
       => UnitSum(o, v, "c_infrastructure_grid")
            = get_grid_cost(v, ConnectedPower(tiers))

\* the per-unit station costs add up to n_stations * the per-station costs
StationsConserved(o, v, costs) ==
    QPos(o.E_total_private)
    => /\ UnitSum(o, v, "c_infrastructure_hardware")
            = QMul(Q(OrOne(v.n_stations)), costs.hardware)
       /\ UnitSum(o, v, "c_infrastructure_grid")
            = QMul(Q(OrOne(v.n_stations)), costs.grid)
       /\ UnitSum(o, v, "c_infrastructure_installation")
            = QMul(Q(OrOne(v.n_stations)), costs.installation)

C28_Step ==
    FleetOfTwoRan
    => IF vp.type_energy \in {"BEV", "PHEV"}
       THEN ChargersConserved(out', vp, CapexTiers(out', vp))
       ELSE StationsConserved(out', vp, StationCosts(vp))

\* C28: for a fleet whose units all have an entry in vehicle_dict, evaluating
\* a new VehicleCAPEXCalculator once per unit with the same fleet inputs gives
\* per-unit hardware, grid and installation costs whose sum over the units is
\* the fleet cost of the item, over the tiers or the station whose fleet energy
\* is positive, whatever vehicle_number is.
C28_CostConservation == [][C28_Step]_vars

(***************************************************************************)
(* Claims about ResidualValueSystem                                        *)
(***************************************************************************)
\* this step is a run of ResidualValueSystem that returns
RVSystemRan ==
    calc = "ResidualValueSystem" /\ out'.calls = out.calls + 1 /\ out'.err = NoErr

\* the inwards of a sub-module with type_energy = e
WithEnergy(child, e) == [child EXCEPT !.type_energy = e]

\* the penalties the four sub-modules compute from the inwards h of
\* health_module when their type_energy is e
PenaltiesFor(h, e) ==
    [tech_penalty |->
        TechSystem_compute(RVSystemOutInit, WithEnergy(h.tech, e)).tech_penalty,
     type_penalty |->
        QualityFuelSystem_compute(RVSystemOutInit, WithEnergy(h.quality, e)).type_penalty,
     obsolence_penalty |->
        ObsolescenceSystem_compute(RVSystemOutInit,
                                   WithEnergy(h.obsolescence, e)).obsolence_penalty,
     charging_penalty |->
        ChargingSystem_compute(RVSystemOutInit, WithEnergy(h.charging, e)).charging_penalty]

\* the penalties of the four sub-modules in the outwards o
PenaltiesOf(o) ==
    [tech_penalty |-> o.tech_penalty, type_penalty |-> o.type_penalty,
     obsolence_penalty |-> o.obsolence_penalty,
     charging_penalty |-> o.charging_penalty]

C29_Step ==
    RVSystemRan => PenaltiesOf(out') = PenaltiesFor(vp.health_module, vp.type_energy)

\* C29: after every single run of ResidualValueSystem with type_energy = X on
\* the root, the tech, quality, obsolescence and charging penalties that enter
\* the residual_value of the run are the ones the sub-modules compute with
\* type_energy = X, not with the type_energy they held before the run.
C29_EnergyPropagated == [][C29_Step]_vars

(***************************************************************************)
(* Claims about the tax step of the ship calculator                        *)
(***************************************************************************)
\* the tax table of the registration country
ShipTaxTable(v) == ShipParams(v.country_reg, "taxes_opex").tax_energy_c_e

\* this step is a compute() of ShipOPEXCalculator whose tax step finds a factor
\* entry under [ship class][energy type]
ShipTaxEntryRead ==
    /\ calc = "ShipOPEXCalculator" /\ out'.calls = out.calls + 1
    /\ ship_get_db_params(vp.country_reg, "taxes_opex") = NoErr
    /\ map_ship_class_to_db_key(vp.ship_class) \in DOMAIN ShipTaxTable(vp)
    /\ vp.energy_type
          \in DOMAIN ShipTaxTable(vp)[map_ship_class_to_db_key(vp.ship_class)]

\* the factor entry under [ship class][energy type]
ShipTaxFactors(v) ==
    ShipTaxTable(v)[map_ship_class_to_db_key(v.ship_class)][v.energy_type]

\* (fuel_mass_kg / 1000) * (f1 + f2 + f3) * co2_price over the first three
\* factors of an entry of at least three, else 0
ShipTaxOf(v, factors) ==
    IF Len(factors) >= 3
    THEN QMul(QMul(QDiv(v.fuel_mass_kg, Q(1000)),
                   QAdd(QAdd(factors[1], factors[2]), factors[3])),
              ShipTaxTable(v).co2_price)
    ELSE Zero

C30_Step ==
    ShipTaxEntryRead
    => /\ out'.err # "ValueError: too many values to unpack"
       /\ out'.o_taxes = ShipTaxOf(vp, ShipTaxFactors(vp))

\* C30: whatever the length of the factor entry under [ship class][energy
\* type], the tax step of every compute() of ShipOPEXCalculator completes
\* without raising and leaves o_taxes = 0 for an entry of fewer than three
\* factors and (fuel_mass_kg / 1000) * (f1 + f2 + f3) * co2_price over the first
\* three factors otherwise.
C30_TaxFactors == [][C30_Step]_vars
=============================================================================
